---- MODULE Spec2Model ----
(***************************************************************************)
(* Model of pysand (DNVGL RP-O501 sand erosion correlations): erosion.py,  *)
(* transport.py, probe.py and min_choke of choke.py.                       *)
(*                                                                         *)
(* The library is a set of pure functions.  A behaviour of the model is a  *)
(* sequence of calls: from the idle state one public function is called on *)
(* an argument bundle, the whole call is evaluated (validator, material    *)
(* lookup, formula, crushed factor) and its outcome is recorded; Return    *)
(* goes back to idle.                                                      *)
(*                                                                         *)
(* Python values are tagged records (None, str, bool, float NaN, number).  *)
(* Numbers are exact rationals n/d: the validator only compares inputs     *)
(* with decimal literals, and the derived quantities the control flow      *)
(* depends on (Dm/D - 0.5, R_c/gap, v_c, ppmV) are rational expressions of *)
(* the inputs.  The transcendental formula values (powers, logarithms) are *)
(* kept as terms: the formula's name, the arguments it was evaluated on    *)
(* and the sequence of scalings applied to it afterwards.  Arguments are   *)
(* Python built-in values (float, int, bool, str, None), as in the tests.  *)
(* Where a claim needs the number itself (erosion_rate, F, min_choke, the  *)
(* rounding of hydro and stokes) the outcome carries it in `value`.        *)
(*                                                                         *)
(* table is the module-level material_dict of erosion.py, the only state   *)
(* that outlives a call.  scipy's root-finder and minimizer are not part   *)
(* of the source: what they return is a choice of the environment, drawn   *)
(* with the call.                                                          *)
(***************************************************************************)
EXTENDS Integers, Sequences, FiniteSets, TLC

VARIABLES pc, call, outcome, table

vars == <<pc, call, outcome, table>>

(***************************************************************************)
(* Python values                                                           *)
(***************************************************************************)
RECURSIVE Gcd(_, _)
Gcd(a, b) == IF b = 0 THEN a ELSE Gcd(b, a % b)

Abs(x) == IF x < 0 THEN -x ELSE x

\* a rational n/d in lowest terms with d > 0
Rat(n, d) ==
    LET g == Gcd(Abs(n), Abs(d))
        s == IF d < 0 THEN -1 ELSE 1
    IN  [t |-> "num", n |-> s * (n \div g), d |-> s * (d \div g), s |-> ""]

Int_(n)  == [t |-> "num", n |-> n, d |-> 1, s |-> ""]
None     == [t |-> "none", n |-> 0, d |-> 1, s |-> ""]
NaN      == [t |-> "nan", n |-> 0, d |-> 1, s |-> ""]
Str(x)   == [t |-> "str", n |-> 0, d |-> 1, s |-> x]
Bool(b)  == [t |-> "bool", n |-> IF b THEN 1 ELSE 0, d |-> 1, s |-> ""]
PyTrue   == Bool(TRUE)
PyFalse  == Bool(FALSE)

\* exact arithmetic and comparison on numbers (bool counts as int 0/1)
\* products are reduced crosswise first, to keep them small
RMul(a, b) ==
    LET g1 == Gcd(Abs(a.n), b.d)
        g2 == Gcd(Abs(b.n), a.d)
    IN  Rat((a.n \div g1) * (b.n \div g2), (a.d \div g2) * (b.d \div g1))
RInv(b)    == Rat(b.d, b.n)
RDiv(a, b) == RMul(a, RInv(b))
RSub(a, b) == Rat(a.n * b.d - b.n * a.d, a.d * b.d)
\* a < b: by the integer parts, then by the fractional parts
RLt(a, b)  ==
    IF a.n \div a.d # b.n \div b.d THEN a.n \div a.d < b.n \div b.d
    ELSE (a.n % a.d) * b.d < (b.n % b.d) * a.d
RLe(a, b)  == a = b \/ RLt(a, b)
RGt(a, b)  == RLt(b, a)
RGe(a, b)  == RLe(b, a)
IsZero(a)  == a.n = 0
IsNeg(a)   == a.n < 0

Zero == Int_(0)

\* isinstance(x, (float, int, np.integer)): bool is a subclass of int, a float
\* NaN is a float
IsInstanceNumber(v) == v.t \in {"num", "bool", "nan"}
IsNan(v) == v.t = "nan"

\* Python truthiness, as used by `if crushed:`
Truthy(v) ==
    CASE v.t = "none" -> FALSE
      [] v.t = "nan"  -> TRUE
      [] v.t = "str"  -> v.s # ""
      [] OTHER        -> v.n # 0

\* np.pi, to the precision the range comparisons of the model need
Pi == Rat(22, 7)

(***************************************************************************)
(* Outcome of a call.  kind is "num" (the value of a formula term), "nan"  *)
(* (np.nan), "none" (the validator's Pass), "true" (the validator's        *)
(* SoftFail), "complex" (a complex formula value) or "raise" (exc names    *)
(* the exception).  term/args/ops describe a formula value: the formula,   *)
(* the arguments it was evaluated on and the scalings applied afterwards,  *)
(* in order.  log is the sequence of diagnostics logged during the call.   *)
(* value is the returned object where the model computes it (kind "value", *)
(* and the exact number of a "num" that is a rational expression of the    *)
(* arguments), None otherwise.                                             *)
(***************************************************************************)
NoArgs == [k \in {} |-> None]

Raise(e, log) ==
    [kind |-> "raise", exc |-> e, term |-> "", args |-> NoArgs, ops |-> <<>>, log |-> log,
     value |-> None]
Plain(k, log) ==
    [kind |-> k, exc |-> "", term |-> "", args |-> NoArgs, ops |-> <<>>, log |-> log,
     value |-> None]
\* the value of a formula: NaN whatever the formula, else the term
Value(k, term, args, log) ==
    IF k = "nan" THEN Plain("nan", log)
    ELSE [kind |-> k, exc |-> "", term |-> term, args |-> args, ops |-> <<>>, log |-> log,
          value |-> None]

FunctionInputFail == "FunctionInputFail"
ZeroDivisionError == "ZeroDivisionError"
TypeError         == "TypeError"
KeyError          == "KeyError"
RuntimeError      == "RuntimeError"

\* a returned object the model computes: a tuple, a list, a number
Returned(x, log) ==
    [kind |-> "value", exc |-> "", term |-> "", args |-> NoArgs, ops |-> <<>>, log |-> log,
     value |-> x]

\* x * c and x / c on a returned float: NaN stays NaN, a value records the scaling
Scale(r, op) ==
    IF r.kind \in {"num", "complex"} THEN [r EXCEPT !.ops = Append(@, op)] ELSE r

Has(kw, k) == k \in DOMAIN kw

(***************************************************************************)
(* validate_inputs, erosion.py lines 9-113.  The validator is a sequence   *)
(* of stages; a stage that raises or returns ends the call, the           *)
(* others append their diagnostics.  st.res = "run" while no stage has     *)
(* decided.                                                                *)
(***************************************************************************)
Run(log)      == [res |-> "run", exc |-> "", log |-> log]
Stop(r, e, l) == [res |-> r, exc |-> e, log |-> l]
Warn(st, c, m) == IF c THEN [st EXCEPT !.log = Append(@, m)] ELSE st

\* lines 33-34
DefaultRhoP(kw) ==
    IF Has(kw, "rho_p") THEN kw
    ELSE [k \in DOMAIN kw \cup {"rho_p"} |-> IF k \in DOMAIN kw THEN kw[k] ELSE Int_(2650)]

MonitoredKeys == <<"v_m", "rho_m", "mu_m", "Q_s">>

\* a check of the monitored parameters that tests all types before any sign
CheckMonitored_types_first(kw, st, i) ==
    LET present == {j \in 1..Len(MonitoredKeys) : Has(kw, MonitoredKeys[j])}
        untyped == {j \in present : ~IsInstanceNumber(kw[MonitoredKeys[j]])
                                       \/ IsNan(kw[MonitoredKeys[j]])}
        negative == {j \in present \ untyped : ~RGe(kw[MonitoredKeys[j]], Zero)}
    IN  IF st.res # "run" THEN st
        ELSE IF untyped # {} THEN Stop("raise", FunctionInputFail, st.log)
        ELSE IF negative # {}
             THEN Stop("true", "",
                       Append(st.log, <<"negative",
                                        MonitoredKeys[CHOOSE j \in negative :
                                                         \A m \in negative : j <= m]>>))
        ELSE st

\* lines 36-42: type/NaN check, then sign check, per monitored parameter in order
RECURSIVE CheckMonitored(_, _, _)
CheckMonitored(kw, st, i) ==
    IF st.res # "run" \/ i > Len(MonitoredKeys) THEN st
    ELSE LET k == MonitoredKeys[i] IN
         IF ~Has(kw, k) THEN CheckMonitored(kw, st, i + 1)
         ELSE IF ~IsInstanceNumber(kw[k]) \/ IsNan(kw[k])
              THEN Stop("raise", FunctionInputFail, st.log)
         ELSE IF ~RGe(kw[k], Zero)
              THEN Stop("true", "", Append(st.log, <<"negative", k>>))
         ELSE CheckMonitored(kw, st, i + 1)

\* lines 44-47
CheckCrushed(kw, st) ==
    IF st.res # "run" THEN st
    ELSE IF Has(kw, "crushed") /\ kw["crushed"].t # "bool"
         THEN Stop("raise", FunctionInputFail, st.log)
         ELSE st

\* lines 49-58
CheckFluidRange(kw, st) ==
    IF st.res # "run" THEN st
    ELSE LET s1 == Warn(st, Has(kw, "v_m") /\ RGt(kw["v_m"], Int_(200)), <<"range", "v_m">>)
             s2 == Warn(s1, Has(kw, "rho_m") /\ (RLt(kw["rho_m"], Int_(1)) \/ RGt(kw["rho_m"], Int_(1500))),
                        <<"range", "rho_m">>)
             s3 == Warn(s2, Has(kw, "mu_m") /\ (RLt(kw["mu_m"], Rat(1, 1000000)) \/ RGt(kw["mu_m"], Rat(1, 100))),
                        <<"range", "mu_m">>)
         IN  s3

\* an operand Python arithmetic accepts (float, int, bool, NaN)
Arith(v) == v.t \in {"num", "bool", "nan"}

\* lines 60-63: ppmV = Q_s / (rho_p * v_m * pi/4 * D**2) * 1e3.  Q_s and v_m have
\* passed the monitored checks; rho_p and D have not been looked at yet.
CheckConcentration(kw, st) ==
    IF st.res # "run" THEN st
    ELSE IF ~(Has(kw, "Q_s") /\ Has(kw, "rho_p") /\ Has(kw, "v_m") /\ Has(kw, "D")) THEN st
    ELSE IF ~Arith(kw["rho_p"]) \/ ~Arith(kw["D"]) THEN Stop("raise", TypeError, st.log)
    ELSE IF IsNan(kw["rho_p"]) \/ IsNan(kw["D"]) THEN st
    ELSE LET den == RMul(RDiv(RMul(RMul(kw["rho_p"], kw["v_m"]), Pi), Int_(4)),
                         RMul(kw["D"], kw["D"]))
         IN  IF IsZero(den) THEN Stop("raise", ZeroDivisionError, st.log)
             \* ppmV = Q_s / den * 1e3 is compared with 0 and 500: Q_s / den with
             \* 0 and 500 / 1e3
             ELSE LET ratio == RDiv(kw["Q_s"], den)
                  IN  Warn(st, RLt(ratio, Zero) \/ RGt(ratio, Rat(500, 1000)), <<"range", "ppmV">>)

GeometryKeys == <<"R", "GF", "D", "d_p", "h", "Dm", "D1", "D2", "R_c", "gap", "H", "alpha", "At">>

\* lines 65-68
RECURSIVE CheckGeometryType(_, _, _)
CheckGeometryType(kw, st, i) ==
    IF st.res # "run" \/ i > Len(GeometryKeys) THEN st
    ELSE LET j == GeometryKeys[i] IN
         IF Has(kw, j) /\ (~IsInstanceNumber(kw[j]) \/ IsNan(kw[j]))
         THEN Stop("raise", FunctionInputFail, st.log)
         ELSE CheckGeometryType(kw, st, i + 1)

DiameterKeys == <<"D", "D1", "D2">>

\* lines 70-75
RECURSIVE CheckDiameters(_, _, _)
CheckDiameters(kw, st, i) ==
    IF st.res # "run" \/ i > Len(DiameterKeys) THEN st
    ELSE LET k == DiameterKeys[i] IN
         IF ~Has(kw, k) THEN CheckDiameters(kw, st, i + 1)
         ELSE LET s1 == Warn(st, RLt(kw[k], Rat(1, 100)) \/ RGt(kw[k], Int_(1)), <<"range", k>>)
              IN  IF ~RGt(kw[k], Zero) THEN Stop("raise", FunctionInputFail, s1.log)
                  ELSE CheckDiameters(kw, s1, i + 1)

\* lines 77-84.  Line 81 builds the FunctionInputFail for a negative d_p and
\* drops it: there is no raise statement.
CheckParticleAndGF(kw, st) ==
    IF st.res # "run" THEN st
    ELSE LET s1 == Warn(st, Has(kw, "d_p") /\ (RLt(kw["d_p"], Rat(2, 100)) \/ RGt(kw["d_p"], Int_(5))),
                        <<"range", "d_p">>)
             s2 == Warn(s1, Has(kw, "GF") /\ RLt(kw["GF"], Int_(1)), <<"range", "GF">>)
         IN  s2

\* lines 86-89
CheckBendRadius(kw, st) ==
    IF st.res # "run" THEN st
    ELSE Warn(st, Has(kw, "R") /\ (RLt(kw["R"], Rat(1, 2)) \/ RGt(kw["R"], Int_(50))), <<"range", "R">>)

\* lines 91-94: kwargs['D'] is read without a membership test
CheckManifold(kw, st) ==
    IF st.res # "run" \/ ~Has(kw, "Dm") THEN st
    ELSE IF ~Has(kw, "D") THEN Stop("raise", KeyError, st.log)
    ELSE Warn(st, RLt(kw["Dm"], kw["D"]), <<"range", "Dm">>)

\* lines 96-99: kwargs['D'] is read, without a membership test, unless h < 0
CheckWeld(kw, st) ==
    IF st.res # "run" \/ ~Has(kw, "h") THEN st
    ELSE IF RLt(kw["h"], Zero) THEN Warn(st, TRUE, <<"range", "h">>)
    ELSE IF ~Has(kw, "D") THEN Stop("raise", KeyError, st.log)
    ELSE Warn(st, RGt(kw["h"], kw["D"]), <<"range", "h">>)

ChokeKeys == <<"R_c", "gap", "H">>

\* lines 101-105
RECURSIVE CheckChokePositive(_, _, _)
CheckChokePositive(kw, st, i) ==
    IF st.res # "run" \/ i > Len(ChokeKeys) THEN st
    ELSE IF Has(kw, ChokeKeys[i]) /\ ~RGt(kw[ChokeKeys[i]], Zero)
         THEN Stop("raise", FunctionInputFail, st.log)
         ELSE CheckChokePositive(kw, st, i + 1)

\* a gap check that also refuses gap = R_c
CheckChokeGap_strict(kw, st) ==
    IF st.res # "run" THEN st
    ELSE IF Has(kw, "R_c") /\ Has(kw, "gap") /\ RGe(kw["gap"], kw["R_c"])
         THEN Stop("raise", FunctionInputFail, st.log)
         ELSE st

\* lines 106-108
CheckChokeGap(kw, st) ==
    IF st.res # "run" THEN st
    ELSE IF Has(kw, "R_c") /\ Has(kw, "gap") /\ RGt(kw["gap"], kw["R_c"])
         THEN Stop("raise", FunctionInputFail, st.log)
         ELSE st

\* lines 110-113
CheckNozzlevalve(kw, st) ==
    IF st.res # "run" \/ ~Has(kw, "model") THEN st
    ELSE IF kw["model"] # Str("nozzlevalve_wall") THEN st
    ELSE IF ~Has(kw, "d_p") THEN Stop("raise", KeyError, st.log)
    ELSE Warn(st, RGt(kw["d_p"], Rat(6, 10)), <<"range", "d_p", "nozzlevalve_wall">>)

\* the whole validator: the result is "none" (falls off the end), "true" or "raise"
validate_inputs(kwargs) ==
    LET kw  == DefaultRhoP(kwargs)
        s1  == CheckMonitored(kw, Run(<<>>), 1)
        s2  == CheckCrushed(kw, s1)
        s3  == CheckFluidRange(kw, s2)
        s4  == CheckConcentration(kw, s3)
        s5  == CheckGeometryType(kw, s4, 1)
        s6  == CheckDiameters(kw, s5, 1)
        s7  == CheckParticleAndGF(kw, s6)
        s8  == CheckBendRadius(kw, s7)
        s9  == CheckManifold(kw, s8)
        s10 == CheckWeld(kw, s9)
        s11 == CheckChokePositive(kw, s10, 1)
        s12 == CheckChokeGap(kw, s11)
        s13 == CheckNozzlevalve(kw, s12)
    IN  IF s13.res = "run" THEN Stop("none", "", s13.log) ELSE s13

\* the validator's outcome as the outcome of a call
ValidatorOutcome(v) ==
    IF v.res = "raise" THEN Raise(v.exc, v.log) ELSE Plain(v.res, v.log)


(***************************************************************************)
(* Material table, erosion.py lines 493-514.  K is written m * 10^e, n in  *)
(* tenths, in the table's order.                                           *)
(***************************************************************************)
Mat(id, rho_t, Km, Ke, n10, ad) ==
    [id |-> id, rho_t |-> rho_t, K |-> [m |-> Km, e |-> Ke], n |-> Rat(n10, 10),
     angle_dependency |-> ad]

material_dict ==
    << Mat("carbon_steel", 7800, 2, -9, 26, "ductile"),
       Mat("duplex", 7850, 2, -9, 26, "ductile"),
       Mat("ss316", 8000, 2, -9, 26, "ductile"),
       Mat("inconel", 8440, 2, -9, 26, "ductile"),
       Mat("grp_epoxy", 1800, 3, -10, 36, "ductile"),
       Mat("grp_vinyl_ester", 1800, 6, -10, 36, "ductile"),
       Mat("hdpe", 1150, 35, -10, 29, "ductile"),
       Mat("aluminium", 2700, 58, -10, 23, "ductile"),
       Mat("dc_05_tungsten", 15250, 11, -11, 23, "brittle"),
       Mat("cs_10_tungsten", 14800, 32, -11, 22, "brittle"),
       Mat("cr_37_tungsten", 14600, 88, -12, 25, "brittle"),
       Mat("95_alu_oxide", 3700, 68, -9, 20, "brittle"),
       Mat("99_alu_oxide", 3700, 95, -8, 12, "brittle"),
       Mat("psz_ceramic_zirconia", 5700, 41, -10, 25, "brittle"),
       Mat("ZrO2-Y3_ceramic_zirconia", 6070, 4, -11, 27, "brittle"),
       Mat("SiC_silicon_carbide", 3100, 65, -10, 19, "brittle"),
       Mat("Si3N4_silicon_nitride", 3200, 2, -10, 20, "brittle"),
       Mat("TiB2_titanium_diboride", 4250, 93, -10, 19, "brittle"),
       Mat("B4C_boron_carbide", 2500, 3, -8, 9, "brittle"),
       Mat("SiSiC_ceramic_carbide", 3100, 74, -12, 27, "brittle") >>

\* `material not in material_dict`, for a material that is a str or None; table
\* is the module-level dict as it is now
InMaterialDict(material) ==
    material.t = "str" /\ \E i \in 1..Len(table) : table[i].id = material.s

\* a lookup that returns the first record of the table for every key
get_material_properties_first(material) ==
    <<table[1].rho_t, table[1].K, table[1].n, table[1].angle_dependency>>

\* lines 526-531; defined when InMaterialDict(material)
get_material_properties(material) ==
    LET i == CHOOSE j \in 1..Len(table) : table[j].id = material.s
    IN  <<table[i].rho_t, table[i].K, table[i].n, table[i].angle_dependency>>

\* get_material_properties as a call, lines 516-531
get_material_properties_outcome(material) ==
    IF ~InMaterialDict(material) THEN Raise(FunctionInputFail, <<>>)
    ELSE Returned(get_material_properties(material), <<>>)

\* get_materials, lines 533-537: a new list of the keys, in the dict's order
get_materials == [i \in 1..Len(table) |-> table[i].id]

\* get_materials_data, lines 539-540: `return material_dict`, the module's
\* own dict and not a copy; the caller holds an alias of `table`
get_materials_data == Plain("mapping", <<>>)

\* the value of `E_rel*3 if crushed else E_rel`
Crushed(r, crushed) == IF Truthy(crushed) THEN Scale(r, "*3") ELSE r

(***************************************************************************)
(* The geometry functions.  Each takes the record of its Python arguments  *)
(* and gives the outcome of the call.  A value the formula arithmetic      *)
(* produces is the term of that formula on the arguments it read.          *)
(***************************************************************************)
Sel(a, keys) == [k \in keys |-> a[k]]

\* bend, lines 116-164.  v is the validator's result on the bundle of line 135.
bend_body(a, v) ==
    IF v.res = "raise" THEN Raise(v.exc, v.log)
    ELSE IF v.res = "true" THEN Plain("nan", v.log)
    ELSE IF ~InMaterialDict(a.material) THEN Raise(FunctionInputFail, v.log)
    \* line 145: 1 / (2 * R) ** 0.5 on Python numbers
    ELSE IF IsZero(a.R) THEN Raise(ZeroDivisionError, v.log)
    \* line 149: rho_p * mu_m
    ELSE IF ~Arith(a.rho_p) THEN Raise(TypeError, v.log)
    \* line 150: rho_p / rho_m on Python numbers
    ELSE IF IsZero(a.rho_m) THEN Raise(ZeroDivisionError, v.log)
    \* a negative R makes (2 * R) ** 0.5, and all that follows, complex
    ELSE Crushed(Value(IF IsNeg(a.R) THEN "complex" ELSE "num", "bend",
                       Sel(a, {"v_m", "rho_m", "mu_m", "R", "GF", "D", "d_p", "material", "rho_p"}),
                       v.log),
                 a.crushed)

bend(a) ==
    bend_body(a, validate_inputs(Sel(a, {"v_m", "rho_m", "mu_m", "R", "GF", "D", "d_p"})))

(***************************************************************************)
(* The particle size correction of bend, lines 148-157.  np.log is not     *)
(* computed: where A is a positive finite number, the value x of           *)
(* 1.88 * np.log(A) - 6.04 is given; where A is 0, inf or NaN the numpy    *)
(* float arithmetic decides.  a is a call of bend that reaches line 148    *)
(* with a real a_rad (R > 0), so rho_m > 0, D > 0 and rho_p is a number or *)
(* NaN.                                                                    *)
(***************************************************************************)
Inf == [t |-> "inf", n |-> 1, d |-> 1, s |-> ""]

\* line 148: gamma = d_p / 1000 / D
bend_gamma(a) == RDiv(RDiv(a.d_p, Int_(1000)), a.D)

\* line 150: beta = rho_p / rho_m
bend_beta(a) == RDiv(a.rho_p, a.rho_m)

\* lines 149-151: gamma_c = 1 / (beta * (1.88 * np.log(A) - 6.04)), with
\* A = rho_m ** 2 * np.tan(a_rad) * v_m * D / (rho_p * mu_m)
bend_gamma_c(a, x) ==
    IF IsNan(a.rho_p) THEN NaN
    \* A = 0 / 0
    ELSE IF IsZero(a.v_m) /\ (IsZero(a.rho_p) \/ IsZero(a.mu_m)) THEN NaN
    \* A = inf, np.log(A) = inf: beta * inf is NaN for beta = 0
    ELSE IF IsZero(a.rho_p) THEN NaN
    ELSE IF IsZero(a.mu_m) THEN Zero
    \* A = 0, np.log(A) = -inf, 1 / -inf = -0.0
    ELSE IF IsZero(a.v_m) THEN Zero
    \* 1 / 0.0 on numpy floats is inf
    ELSE IF IsZero(x) THEN Inf
    ELSE RInv(RMul(bend_beta(a), x))

\* lines 152-153: if gamma_c <= 0 or gamma_c > 0.1: gamma_c = 0.1.  Both
\* comparisons are False for NaN
clamp(gamma_c) ==
    IF gamma_c.t = "nan" THEN gamma_c
    ELSE IF gamma_c.t = "inf" THEN Rat(1, 10)
    ELSE IF RLe(gamma_c, Zero) \/ RGt(gamma_c, Rat(1, 10)) THEN Rat(1, 10)
    ELSE gamma_c

\* lines 154-157: gamma < gamma_c is False for a NaN gamma_c
bend_G(gamma, gamma_c) ==
    IF gamma_c.t # "nan" /\ RLt(gamma, gamma_c) THEN RDiv(gamma, gamma_c) ELSE Int_(1)

\* lines 148-157 as one step: what it computes
particle_size_correction(a, x) ==
    Returned([gamma |-> bend_gamma(a), computed |-> bend_gamma_c(a, x),
              gamma_c |-> clamp(bend_gamma_c(a, x)),
              G |-> bend_G(bend_gamma(a), clamp(bend_gamma_c(a, x)))], <<>>)

\* tee, lines 167-216
tee_body(a, v) ==
    IF v.res = "raise" THEN Raise(v.exc, v.log)
    ELSE IF v.res = "true" THEN Plain("nan", v.log)
    ELSE IF ~InMaterialDict(a.material) THEN Raise(FunctionInputFail, v.log)
    \* line 193: rho_p / rho_m
    ELSE IF ~Arith(a.rho_p) THEN Raise(TypeError, v.log)
    ELSE IF IsZero(a.rho_m) THEN Raise(ZeroDivisionError, v.log)
    \* line 194: v_m * D * rho_m / mu_m
    ELSE IF IsZero(a.mu_m) THEN Raise(ZeroDivisionError, v.log)
    \* line 196: .14 / beta with beta = 0 < 40
    ELSE IF ~IsNan(a.rho_p) /\ IsZero(a.rho_p) THEN Raise(ZeroDivisionError, v.log)
    \* line 201: beta ** .3 with a negative beta is complex; a NaN beta
    \* makes c, G and the result NaN (lines 203-212).  line 210: a negative
    \* d_p makes gamma negative and G = (gamma / gamma_c) ** c NaN, c being
    \* 19 / np.log(Re); with v_m = 0, c is -0.0 and G is 1
    ELSE Crushed(Value(IF IsNan(a.rho_p) THEN "nan"
                       ELSE IF IsNeg(a.rho_p) THEN "complex"
                       ELSE IF IsNeg(a.d_p) /\ ~IsZero(a.v_m) THEN "nan" ELSE "num",
                       "tee",
                       Sel(a, {"v_m", "rho_m", "mu_m", "GF", "D", "d_p", "material", "rho_p"}),
                       v.log),
                 a.crushed)

tee(a) == tee_body(a, validate_inputs(Sel(a, {"v_m", "rho_m", "mu_m", "GF", "D", "d_p"})))

\* the operands of a formula: the arguments it reads and its unit conversion
\* constant
WithUnit(args, c) ==
    [k \in DOMAIN args \cup {"C_unit"} |-> IF k = "C_unit" THEN c ELSE args[k]]

\* line 232: C_unit = 1000 * 3600 * 24 * 365.25, in units of 10**9
straight_pipe_C_unit ==
    RMul(RMul(RMul(Rat(1000, 1000000000), Int_(3600)), Int_(24)), Rat(36525, 100))

\* straight_pipe, lines 219-237
straight_pipe_body(a, v) ==
    IF v.res = "raise" THEN Raise(v.exc, v.log)
    ELSE IF v.res = "true" THEN Plain("nan", v.log)
    ELSE Crushed(Value("num", "straight_pipe",
                       WithUnit(Sel(a, {"v_m", "D"}), straight_pipe_C_unit), v.log),
                 a.crushed)

straight_pipe(a) == straight_pipe_body(a, validate_inputs(Sel(a, {"v_m", "D"})))

\* an advisory that is logged at the bounds as well
AlphaAdvisory_inclusive(log, alpha, lo, hi, who) ==
    IF RLe(alpha, Int_(lo)) \/ RGe(alpha, Int_(hi)) THEN Append(log, <<"range", "alpha", who>>)
    ELSE log

\* the advisory on alpha that welded_joint, reducer and probes log themselves
\* (lines 263-264, 338-339, 377-378)
AlphaAdvisory(log, alpha, lo, hi, who) ==
    IF RLt(alpha, Int_(lo)) \/ RGt(alpha, Int_(hi)) THEN Append(log, <<"range", "alpha", who>>)
    ELSE log

\* F, lines 542-555, is NaN for a ductile material and an angle below zero:
\* (np.sin(a_rad) + B * (np.sin(a_rad) - np.sin(a_rad) ** 2)) ** k has a negative
\* base (for the angles above -180 degrees); the brittle branch is linear
F_is_nan(alpha, material) ==
    get_material_properties(material)[4] = "ductile" /\ IsNeg(alpha)

\* line 270: C_unit = 3.15e10, in units of 10**9
welded_joint_C_unit == Rat(315, 10)

\* a dispatch that takes every location but 'upstream' for 'downstream'
welded_joint_formula_lenient(a, log) ==
    IF ~InMaterialDict(a.material) THEN Raise(FunctionInputFail, log)
    ELSE IF IsZero(a.rho_m) THEN Raise(ZeroDivisionError, log)
    ELSE IF a.location = Str("upstream")
         THEN Crushed(Value(IF F_is_nan(a.alpha, a.material) THEN "nan" ELSE "num",
                            "welded_joint_upstream",
                            Sel(a, {"v_m", "rho_m", "D", "d_p", "alpha", "material"}), log),
                      a.crushed)
    ELSE Crushed(Value("num", "welded_joint_downstream",
                       WithUnit(Sel(a, {"v_m", "D", "h", "material"}), welded_joint_C_unit),
                       log),
                 a.crushed)

\* welded_joint, lines 266-287, after the validator has passed; log holds the
\* diagnostics so far
welded_joint_formula(a, log) ==
    IF ~InMaterialDict(a.material) THEN Raise(FunctionInputFail, log)
    \* line 271: ... / (30 * rho_m**.5)
    ELSE IF IsZero(a.rho_m) THEN Raise(ZeroDivisionError, log)
    ELSE IF a.location = Str("downstream")
         THEN Crushed(Value("num", "welded_joint_downstream",
                            WithUnit(Sel(a, {"v_m", "D", "h", "material"}),
                                     welded_joint_C_unit), log),
                      a.crushed)
    ELSE IF a.location = Str("upstream")
         THEN Crushed(Value(IF F_is_nan(a.alpha, a.material) THEN "nan" ELSE "num",
                            "welded_joint_upstream",
                            Sel(a, {"v_m", "rho_m", "D", "d_p", "alpha", "material"}), log),
                      a.crushed)
    ELSE Raise(FunctionInputFail, log)

\* a welded_joint that looks the material up before it tests the validator's
\* result
welded_joint_body_lookup_first(a, v) ==
    IF v.res = "raise" THEN Raise(v.exc, v.log)
    ELSE IF ~InMaterialDict(a.material) THEN Raise(FunctionInputFail, v.log)
    ELSE IF v.res = "true" THEN Plain("nan", v.log)
    ELSE welded_joint_formula(a, AlphaAdvisory(v.log, a.alpha, 0, 90, "welded_joint"))

\* welded_joint, lines 240-264
welded_joint_body(a, v) ==
    IF v.res = "raise" THEN Raise(v.exc, v.log)
    ELSE IF v.res = "true" THEN Plain("nan", v.log)
    ELSE welded_joint_formula(a, AlphaAdvisory(v.log, a.alpha, 0, 90, "welded_joint"))

welded_joint(a) ==
    welded_joint_body(a, validate_inputs(Sel(a, {"v_m", "rho_m", "D", "d_p", "h", "alpha"})))

\* the outcome of a callee, with the diagnostics the caller logged before it
After(log, r) == [r EXCEPT !.log = log \o @]

\* a manifold that takes Dm / D for the bend radius
manifold_body_ratio(a, v) ==
    IF v.res = "raise" THEN Raise(v.exc, v.log)
    ELSE IF v.res = "true" THEN Plain("nan", v.log)
    ELSE After(v.log,
               bend([v_m |-> a.v_m, rho_m |-> a.rho_m, mu_m |-> a.mu_m,
                     R |-> RDiv(a.Dm, a.D),
                     GF |-> a.GF, D |-> a.D, d_p |-> a.d_p, material |-> a.material,
                     rho_p |-> a.rho_p, crushed |-> a.crushed]))

\* manifold, lines 290-313
manifold_body(a, v) ==
    IF v.res = "raise" THEN Raise(v.exc, v.log)
    ELSE IF v.res = "true" THEN Plain("nan", v.log)
    ELSE After(v.log,
               bend([v_m |-> a.v_m, rho_m |-> a.rho_m, mu_m |-> a.mu_m,
                     R |-> RSub(RDiv(a.Dm, a.D), Rat(1, 2)),
                     GF |-> a.GF, D |-> a.D, d_p |-> a.d_p, material |-> a.material,
                     rho_p |-> a.rho_p, crushed |-> a.crushed]))

manifold(a) == manifold_body(a, validate_inputs(Sel(a, {"D", "Dm"})))

\* reducer, lines 341-356, after the validator has passed
reducer_formula(a, log) ==
    IF ~InMaterialDict(a.material) THEN Raise(FunctionInputFail, log)
    \* line 347: ... / (30 * rho_m ** .5)
    ELSE IF IsZero(a.rho_m) THEN Raise(ZeroDivisionError, log)
    \* lines 344-351: with D1 = D2 both At and Aratio are 0, and the numpy
    \* quotient by At times Aratio is NaN
    ELSE Crushed(Value(IF F_is_nan(a.alpha, a.material) \/ a.D1 = a.D2 THEN "nan" ELSE "num",
                       "reducer",
                       Sel(a, {"v_m", "rho_m", "D1", "D2", "GF", "d_p", "alpha", "material"}),
                       log), a.crushed)

\* reducer, lines 316-339
reducer_body(a, v) ==
    IF v.res = "raise" THEN Raise(v.exc, v.log)
    ELSE IF v.res = "true" THEN Plain("nan", v.log)
    ELSE reducer_formula(a, AlphaAdvisory(v.log, a.alpha, 10, 80, "reducer"))

reducer(a) ==
    reducer_body(a, validate_inputs(Sel(a, {"v_m", "rho_m", "D1", "D2", "GF", "d_p", "alpha"})))

\* probes, lines 380-393, after the validator has passed
probes_formula(a, log) ==
    IF ~InMaterialDict(a.material) THEN Raise(FunctionInputFail, log)
    \* line 384: ... / (30 * rho_m ** .5)
    ELSE IF IsZero(a.rho_m) THEN Raise(ZeroDivisionError, log)
    ELSE Crushed(Value(IF F_is_nan(a.alpha, a.material) THEN "nan" ELSE "num", "probes",
                       Sel(a, {"v_m", "rho_m", "D", "d_p", "alpha", "material"}), log),
                 a.crushed)

\* probes, lines 358-378
probes_body(a, v) ==
    IF v.res = "raise" THEN Raise(v.exc, v.log)
    ELSE IF v.res = "true" THEN Plain("nan", v.log)
    ELSE probes_formula(a, AlphaAdvisory(v.log, a.alpha, 10, 90, "probes"))

probes(a) == probes_body(a, validate_inputs(Sel(a, {"v_m", "rho_m", "D", "d_p", "alpha"})))

\* a flexible that forwards crushed to bend and triples afterwards as well
flexible_forwarding_crushed(a) ==
    Crushed(bend([v_m |-> a.v_m, rho_m |-> a.rho_m, mu_m |-> a.mu_m, R |-> a.mbr,
                  GF |-> Int_(2), D |-> a.D, d_p |-> a.d_p, material |-> a.material,
                  rho_p |-> Int_(2650), crushed |-> a.crushed]),
            a.crushed)

\* flexible, lines 396-417: bend with GF = 2, the default rho_p and no crushed
flexible(a) ==
    Crushed(bend([v_m |-> a.v_m, rho_m |-> a.rho_m, mu_m |-> a.mu_m, R |-> a.mbr,
                  GF |-> Int_(2), D |-> a.D, d_p |-> a.d_p, material |-> a.material,
                  rho_p |-> Int_(2650), crushed |-> PyFalse]),
            a.crushed)

\* a gallery velocity that drops the sign of v_m
GalleryVelocity_magnitude(a) ==
    IF IsNan(a.v_m) \/ IsNan(a.D) THEN NaN
    ELSE RDiv(RMul(Rat(3, 4),
                   RMul(RDiv(RMul(Rat(Abs(a.v_m.n), a.v_m.d), Pi), Int_(4)), RMul(a.D, a.D))),
              RMul(RMul(Int_(2), a.H), a.gap))

\* line 445-446: v_c = 3/4 * (v_m * pi / 4 * D**2) / Ag, with Ag = 2 * H * gap
GalleryVelocity(a) ==
    IF IsNan(a.v_m) \/ IsNan(a.D) THEN NaN
    ELSE RDiv(RMul(Rat(3, 4), RMul(RDiv(RMul(a.v_m, Pi), Int_(4)), RMul(a.D, a.D))),
              RMul(RMul(Int_(2), a.H), a.gap))

\* choke_gallery, lines 420-454
choke_gallery_body(a, v) ==
    IF v.res = "raise" THEN Raise(v.exc, v.log)
    ELSE IF v.res = "true" THEN Plain("nan", v.log)
    \* line 445: v_m * np.pi / 4 * D**2
    ELSE IF ~Arith(a.v_m) \/ ~Arith(a.D) THEN Raise(TypeError, v.log)
    ELSE Crushed(
            Scale(Scale(
                After(v.log,
                      bend([v_m |-> GalleryVelocity(a), rho_m |-> a.rho_m, mu_m |-> a.mu_m,
                            R |-> RDiv(a.R_c, a.gap), GF |-> a.GF, D |-> a.gap,
                            d_p |-> a.d_p, material |-> a.material, rho_p |-> Int_(2650),
                            crushed |-> PyFalse])),
                "/2.5"), "*1.25"),
            a.crushed)

choke_gallery(a) == choke_gallery_body(a, validate_inputs(Sel(a, {"R_c", "gap", "H"})))

\* nozzlevalve_wall, lines 457-482
nozzlevalve_wall_body(a, v) ==
    IF v.res = "raise" THEN Raise(v.exc, v.log)
    ELSE IF v.res = "true" THEN Plain("nan", v.log)
    ELSE IF ~InMaterialDict(a.material) THEN Raise(FunctionInputFail, v.log)
    \* line 477: ... / (2 * rho_t * At) on Python numbers
    ELSE IF IsZero(a.At) THEN Raise(ZeroDivisionError, v.log)
    ELSE Crushed(Value("num", "nozzlevalve_wall",
                       Sel(a, {"v_m", "d_p", "GF", "At", "material"}), v.log), a.crushed)

nozzlevalve_wall(a) ==
    nozzlevalve_wall_body(a,
        validate_inputs([k \in {"v_m", "d_p", "GF", "At", "model"} |->
                            IF k = "model" THEN Str("nozzlevalve_wall") ELSE a[k]]))

\* a + b on numbers
RAdd(a, b) == Rat(a.n * b.d + b.n * a.d, a.d * b.d)

\* line 474: C1 = 8.33 * d_p**3 - 29.2 * d_p**2 + 22.8 * d_p + 1, evaluated
\* by Horner's rule
nozzlevalve_wall_C1(d_p) ==
    RAdd(RMul(RAdd(RMul(RSub(RMul(Rat(833, 100), d_p), Rat(292, 10)), d_p), Rat(228, 10)),
              d_p),
         Int_(1))

\* -1, 0 or 1 as the number x is negative, zero or positive
SignOf(x) == IF IsNeg(x) THEN -1 ELSE IF IsZero(x) THEN 0 ELSE 1

\* the sign of the value of a formula that is a product of factors of known
\* sign; v_m is not negative where a formula is reached, so v_m ** n has the
\* sign of v_m.  Line 275: 3.3e-2 * (7.5e-4 + h) * v_m**n * D**(-2) * (1e6/C_unit);
\* line 477: K * v_m ** n / (2 * rho_t * At) * C1 * GF * 10 ** 6
ValueSign(term, a) ==
    IF term = "welded_joint_downstream"
    THEN SignOf(RAdd(Rat(75, 100000), a.h)) * SignOf(a.v_m)
    ELSE SignOf(a.v_m) * SignOf(a.At) * SignOf(nozzlevalve_wall_C1(a.d_p)) * SignOf(a.GF)

\* lines 568-569: C_unit / (10**6 * 1000) with C_unit = 1000 * 3600 * 24 * 365.25,
\* taken factor by factor to stay within the integers of the checker
C_unit ==
    RDiv(RMul(RMul(RMul(RDiv(Int_(1000), Int_(1000000)), Int_(3600)), Int_(24)),
              Rat(36525, 100)),
         Int_(1000))

\* a conversion that takes the sand rate for 1 g/s
E_unit_rate(E_rel, Q_s) == RMul(E_rel, C_unit)

\* line 569: E = (E_rel / 10**6) * (Q_s / 1000) * C_unit, as an exact rational
E(E_rel, Q_s) == RMul(RMul(E_rel, Q_s), C_unit)

\* erosion_rate, lines 558-570
erosion_rate_body(a, v) ==
    IF v.res = "raise" THEN Raise(v.exc, v.log)
    ELSE IF v.res = "true" THEN Plain("nan", v.log)
    \* line 569: E_rel / 10**6
    ELSE IF ~Arith(a.E_rel) THEN Raise(TypeError, v.log)
    ELSE IF IsNan(a.E_rel) THEN Plain("nan", v.log)
    ELSE [Value("num", "erosion_rate", Sel(a, {"E_rel", "Q_s"}), v.log)
            EXCEPT !.value = E(a.E_rel, a.Q_s)]

\* an erosion_rate that hands the validator a velocity and a diameter as well
erosion_rate_with_flow(a) ==
    erosion_rate_body(a, validate_inputs([Q_s |-> a.Q_s, v_m |-> Int_(30), D |-> Rat(1, 10)]))

erosion_rate(a) == erosion_rate_body(a, validate_inputs(Sel(a, {"Q_s"})))

(***************************************************************************)
(* F, lines 542-555.  The angle a_rad is given in units of pi, as an exact *)
(* rational q (a_rad = q * pi); the result is an enclosure [lo, hi] of the *)
(* returned float, a single point where the float arithmetic is exact.     *)
(***************************************************************************)
Exactly(r) == [lo |-> r, hi |-> r]

\* line 551: A = .6
F_A == Rat(6, 10)

\* line 552: np.exp(-C * a_rad) at a_rad = pi/2 is exp(-10 pi), a positive
\* number below 2^-20
ExpBound == Rat(1, 1048576)

\* an F whose last branch is the brittle formula instead of a raise
F_lenient(a_rad, angle_dependency) ==
    IF ~Arith(a_rad) THEN Raise(TypeError, <<>>)
    ELSE IF IsNan(a_rad) THEN Plain("nan", <<>>)
    ELSE Returned(Exactly(RMul(Int_(2), a_rad)), <<>>)

F(a_rad, angle_dependency) ==
    IF angle_dependency = Str("ductile")
    THEN \* line 552
         IF ~Arith(a_rad) THEN Raise(TypeError, <<>>)
         ELSE IF IsNan(a_rad) THEN Plain("nan", <<>>)
         \* sin < 0: a negative base to the power .6
         ELSE IF IsNeg(a_rad) THEN Plain("nan", <<>>)
         \* sin = 0: .6 * 0**.6 * (1 - exp(0))
         ELSE IF IsZero(a_rad) THEN Returned(Exactly(Zero), <<>>)
         \* sin = 1: .6 * (1 + 7.2 * 0)**.6 * (1 - exp(-10 pi))
         ELSE IF a_rad = Rat(1, 2)
              THEN Returned([lo |-> RMul(F_A, RSub(Int_(1), ExpBound)), hi |-> F_A], <<>>)
         ELSE Value("num", "F_ductile", [a_rad |-> a_rad], <<>>)
    ELSE IF angle_dependency = Str("brittle")
    THEN \* line 554: 2 * a_rad / np.pi
         IF ~Arith(a_rad) THEN Raise(TypeError, <<>>)
         ELSE IF IsNan(a_rad) THEN Plain("nan", <<>>)
         ELSE Returned(Exactly(RMul(Int_(2), a_rad)), <<>>)
    \* line 556
    ELSE Raise(FunctionInputFail, <<>>)

\* angles in units of pi: 0, 34.8 degrees, pi/4, pi/2, -pi/4, and no number
AngleArgs == {Zero, Rat(29, 150), Rat(1, 4), Rat(1, 2), Rat(-1, 4), None, NaN}

ClassArgs ==
    {Str("ductile"), Str("brittle"), Str("Ductile"), Str("something_else"), Str(""), None}

(***************************************************************************)
(* transport.py.  Its validate_inputs is a function of its own, here       *)
(* transport_validate_inputs: one loop over the fluid and particle fields  *)
(* (type/NaN check, then sign check, per field in the order of line 130),  *)
(* then the angle.                                                         *)
(***************************************************************************)
TransportKeys == <<"rho_m", "rho_l", "mu_m", "mu_l", "d_p", "e", "rho_p", "D">>

\* a loop that checks the type of every field before the sign of any
CheckTransportFields_types_first(kw, st, i) ==
    LET present == {j \in 1..Len(TransportKeys) : Has(kw, TransportKeys[j])}
        bad(j)  == ~IsInstanceNumber(kw[TransportKeys[j]]) \/ IsNan(kw[TransportKeys[j]])
        neg(j)  == ~RGe(kw[TransportKeys[j]], Zero)
    IN  IF \E j \in present : bad(j) THEN Stop("raise", FunctionInputFail, st.log)
        ELSE IF \E j \in present : neg(j)
             THEN LET j == CHOOSE j1 \in present :
                               neg(j1) /\ \A j2 \in present : j2 < j1 => ~neg(j2)
                  IN  Stop("true", "", Append(st.log, <<"negative", TransportKeys[j]>>))
        ELSE st

\* lines 130-136
RECURSIVE CheckTransportFields(_, _, _)
CheckTransportFields(kw, st, i) ==
    IF st.res # "run" \/ i > Len(TransportKeys) THEN st
    ELSE LET k == TransportKeys[i] IN
         IF ~Has(kw, k) THEN CheckTransportFields(kw, st, i + 1)
         ELSE IF ~IsInstanceNumber(kw[k]) \/ IsNan(kw[k])
              THEN Stop("raise", FunctionInputFail, st.log)
         ELSE IF ~RGe(kw[k], Zero)
              THEN Stop("true", "", Append(st.log, <<"negative", k>>))
         ELSE CheckTransportFields(kw, st, i + 1)

\* lines 138-142
CheckAngle(kw, st) ==
    IF st.res # "run" \/ ~Has(kw, "angle") THEN st
    ELSE IF ~IsInstanceNumber(kw["angle"]) \/ IsNan(kw["angle"])
         THEN Stop("raise", FunctionInputFail, st.log)
    ELSE IF RLt(kw["angle"], Zero) \/ RGt(kw["angle"], Int_(89))
         THEN Stop("raise", FunctionInputFail, st.log)
    ELSE st

\* lines 128-144: the result is "none" (line 144), "true" or "raise"
transport_validate_inputs(kwargs) ==
    LET s1 == CheckTransportFields(kwargs, Run(<<>>), 1)
        s2 == CheckAngle(kwargs, s1)
    IN  IF s2.res = "run" THEN Stop("none", "", s2.log) ELSE s2

\* np.round(x, 2): to the nearest hundredth, a tie to the even one
Round2(x) ==
    LET n100 == x.n * 100
        q    == n100 \div x.d
        r2   == 2 * (n100 % x.d)
    IN  IF r2 < x.d THEN Rat(q, 100)
        ELSE IF r2 > x.d THEN Rat(q + 1, 100)
        ELSE IF q % 2 = 0 THEN Rat(q, 100)
        ELSE Rat(q + 1, 100)

\* line 124
NotConverged == <<"not_converged">>

\* a stokes that returns the rounded x whatever the minimizer reports
stokes_body_ignores_success(a, m, v) ==
    IF v.res = "raise" THEN Raise(v.exc, v.log)
    ELSE IF v.res = "true" THEN Plain("nan", v.log)
    ELSE IF IsZero(a.mu_m) THEN Raise(ZeroDivisionError, v.log)
    ELSE Returned(Round2(m.x), v.log)

\* stokes, lines 93-125.  m is what optimize.minimize_scalar returned: its
\* fields success and x
stokes_body(a, m, v) ==
    IF v.res = "raise" THEN Raise(v.exc, v.log)
    ELSE IF v.res = "true" THEN Plain("nan", v.log)
    \* line 112, at the minimizer's first evaluation of f: ... / mu_m
    ELSE IF IsZero(a.mu_m) THEN Raise(ZeroDivisionError, v.log)
    ELSE IF m.success THEN Returned(Round2(m.x), v.log)
    ELSE Plain("nan", Append(v.log, NotConverged))

stokes(a, m) == stokes_body(a, m, transport_validate_inputs(a))

\* moody, lines 35-70, the friction factor helper nested in hydro.  nw is
\* what optimize.newton(colebrook, fi, args=(ed, Re), tol=5e-6) of line 64
\* ends in.  Re is a Python float, so 64 / Re raises for Re = 0.
moody(ed, Re, nw) ==
    LET l1 == IF RLt(Re, Zero) THEN <<<<"negative", "Re">>>> ELSE <<>>
        \* lines 50-53, reached for Re >= 2000 only
        l2 == IF RGt(ed, Rat(5, 100)) THEN Append(l1, <<"range", "ed">>) ELSE l1
        l3 == IF RLt(Re, Int_(4000)) THEN Append(l2, <<"info", "transition">>) ELSE l2
    IN  IF RLt(Re, Int_(2000))
        THEN IF IsZero(Re) THEN Raise(ZeroDivisionError, l1)
             ELSE Returned(RDiv(Int_(64), Re), l1)
        ELSE IF nw.res = "raise" THEN Raise(nw.exc, l3)
        ELSE Returned(nw.x, IF RLt(nw.x, Zero) THEN Append(l3, <<"negative", "f">>) ELSE l3)

\* a loop that appends NaN for a root-find that failed and goes on
hydro_loop_lenient(n, log) ==
    Returned(<<IF n.bed.res = "root" THEN Round2(n.bed.x) ELSE NaN,
               IF n.scouring.res = "root" THEN Round2(n.scouring.x) ELSE NaN>>, log)

\* lines 86-90.  n.bed and n.scouring are what the two calls of
\* optimize.newton(critical_u, 2, args=(i,), tol=5e-6, maxiter=100) end in: a
\* root, or an exception (RuntimeError when the iteration did not converge, or
\* one critical_u raised), which ends hydro
hydro_loop(n, log) ==
    IF n.bed.res = "raise" THEN Raise(n.bed.exc, log)
    ELSE IF n.scouring.res = "raise" THEN Raise(n.scouring.exc, log)
    ELSE Returned(<<Round2(n.bed.x), Round2(n.scouring.x)>>, log)

\* hydro, lines 12-90
hydro_body(a, n, v) ==
    IF v.res = "raise" THEN Raise(v.exc, v.log)
    ELSE IF v.res = "true" THEN Plain("nan", v.log)
    \* line 32: nu = mu_l / rho_l
    ELSE IF IsZero(a.rho_l) THEN Raise(ZeroDivisionError, v.log)
    \* line 74, at the first evaluation of critical_u: e / D
    ELSE IF IsZero(a.D) THEN Raise(ZeroDivisionError, v.log)
    ELSE hydro_loop(n, v.log)

hydro(a, n) == hydro_body(a, n, transport_validate_inputs(a))

(***************************************************************************)
(* probe.py.  Its validate_inputs is a function of its own, here           *)
(* probe_validate_inputs.  The float P that probes returns is kept as a    *)
(* symbol, and a value derived from it as the monomial coef * P^pow.       *)
(***************************************************************************)
Mono(c, p)    == [coef |-> c, pow |-> p]
MonoMul(x, y) == Mono(RMul(x.coef, y.coef), x.pow + y.pow)
MonoDiv(x, y) == Mono(RDiv(x.coef, y.coef), x.pow - y.pow)

\* line 569 on values that depend on P
E_of(E_rel, Q_s) == MonoMul(MonoMul(E_rel, Q_s), Mono(C_unit, 0))

ProbeKeys == <<"E_meas", "v_m">>

\* lines 21-30: E_meas, then v_m, in the order of the dict of line 47
RECURSIVE probe_validate_inputs(_, _, _)
probe_validate_inputs(kw, st, i) ==
    IF st.res # "run" \/ i > Len(ProbeKeys) THEN st
    ELSE LET k == ProbeKeys[i] IN
         IF ~IsInstanceNumber(kw[k]) THEN Stop("raise", FunctionInputFail, st.log)
         \* line 25; NaN < 0 is False
         ELSE IF ~IsNan(kw[k]) /\ RLt(kw[k], Zero) THEN Stop("raise", FunctionInputFail, st.log)
         ELSE probe_validate_inputs(
                  kw, Warn(st, k = "v_m" /\ ~IsNan(kw[k]) /\ RLt(kw[k], Int_(5)), <<"low", "v_m">>),
                  i + 1)

\* P is 0.0 when a factor of line 388 is: v_m ** n, C2 (d_p), F (alpha = 0)
ProbesIsZero(a) == IsZero(a.v_m) \/ IsZero(a.d_p) \/ IsZero(a.alpha)

\* an er_sand_rate that multiplies where line 53 divides
sand_rate_product(E_meas, E_theor) == MonoMul(Mono(E_meas, 0), E_theor)

\* line 53: Q_s = E_meas / E_theor
sand_rate(E_meas, E_theor) == MonoDiv(Mono(E_meas, 0), E_theor)

\* er_sand_rate, lines 33-55.  pv is the result of the validator of line 48,
\* P the outcome of probes of line 50
er_sand_rate_body(a, pv, P) ==
    IF pv.res = "raise" THEN Raise(pv.exc, pv.log)
    ELSE IF P.kind = "raise" THEN Raise(P.exc, pv.log \o P.log)
    \* NaN runs through lines 52 and 53
    ELSE IF P.kind = "nan" \/ IsNan(a.E_meas) THEN Plain("nan", pv.log \o P.log)
    \* E_theor = 0.0, a numpy float: E_meas / 0.0 is inf, and NaN for E_meas = 0
    ELSE IF ProbesIsZero(a)
         THEN Plain(IF IsZero(a.E_meas) THEN "nan" ELSE "inf", pv.log \o P.log)
    ELSE [Value("num", "er_sand_rate", a, pv.log \o P.log)
            EXCEPT !.value = sand_rate(a.E_meas, E_of(Mono(Int_(1), 1), Mono(Int_(1), 0)))]

er_sand_rate(a) ==
    er_sand_rate_body(
        a, probe_validate_inputs(a, Run(<<>>), 1),
        probes([v_m |-> a.v_m, rho_m |-> a.rho_m, D |-> a.D, d_p |-> a.d_p, alpha |-> a.alpha,
                material |-> Str("duplex"), crushed |-> PyFalse]))

(***************************************************************************)
(* choke.py, min_choke.                                                    *)
(***************************************************************************)
\* a < b and a <= b in Python: False when an operand is NaN
PyLt(a, b) == ~IsNan(a) /\ ~IsNan(b) /\ RLt(a, b)
PyLe(a, b) == ~IsNan(a) /\ ~IsNan(b) /\ RLe(a, b)

\* a table whose boundary values belong to the lower band
min_choke_boundary_low(Qs, v_c) ==
    IF ~Arith(Qs) \/ ~Arith(v_c) THEN Raise(TypeError, <<>>)
    ELSE IF PyLe(Qs, Rat(1, 100))
         THEN Returned(IF PyLe(v_c, Int_(100)) THEN Rat(5, 100) ELSE Rat(1, 10), <<>>)
    ELSE IF PyLe(Qs, Rat(1, 10))
         THEN Returned(IF PyLe(v_c, Int_(50)) THEN Rat(5, 100)
                       ELSE IF PyLe(v_c, Int_(100)) THEN Rat(1, 10)
                       ELSE Rat(2, 10), <<>>)
    ELSE Returned(IF PyLe(v_c, Int_(50)) THEN Rat(1, 10) ELSE Rat(2, 10), <<>>)

\* min_choke, lines 15-40; a comparison with None or a string raises TypeError,
\* and every path compares Qs first and v_c next
min_choke(Qs, v_c) ==
    IF ~Arith(Qs) \/ ~Arith(v_c) THEN Raise(TypeError, <<>>)
    \* lines 23-27
    ELSE IF PyLt(Qs, Rat(1, 100))
         THEN Returned(IF PyLt(v_c, Int_(100)) THEN Rat(5, 100) ELSE Rat(1, 10), <<>>)
    \* lines 28-34
    ELSE IF PyLe(Rat(1, 100), Qs) /\ PyLt(Qs, Rat(1, 10))
         THEN Returned(IF PyLt(v_c, Int_(50)) THEN Rat(5, 100)
                       ELSE IF PyLe(Int_(50), v_c) /\ PyLt(v_c, Int_(100)) THEN Rat(1, 10)
                       ELSE Rat(2, 10), <<>>)
    \* lines 35-39
    ELSE Returned(IF PyLt(v_c, Int_(50)) THEN Rat(1, 10) ELSE Rat(2, 10), <<>>)

\* the sand rates and velocities of test_choke.py, the boundary values and
\* their neighbours
QsArgs ==
    {Int_(-1), Zero, Rat(5, 1000), Rat(9, 1000), Rat(1, 100), Rat(2, 100), Rat(9, 100),
     Rat(1, 10), Rat(2, 10), Rat(46, 10), NaN, None}
VcArgs ==
    {Int_(-1), Int_(6), Rat(499, 10), Int_(50), Int_(75), Rat(999, 10), Int_(100), Int_(105),
     Int_(400), NaN, None}

(***************************************************************************)
(* Argument bundles.  Base is a valid call (the values of the repository's *)
(* tests); Alt gives, per parameter, the other values a caller may pass:   *)
(* None, a string, NaN, a negative number, zero, and values on either side *)
(* of each boundary the code compares with.  A bundle differs from Base in *)
(* at most MaxDev parameters.                                              *)
(***************************************************************************)
MaxDev == 2

Base ==
    [v_m |-> Int_(30), rho_m |-> Int_(30), mu_m |-> Rat(3, 200000), Q_s |-> Int_(1),
     R |-> Int_(1), GF |-> Int_(2), D |-> Rat(1, 10), d_p |-> Rat(2, 5),
     h |-> Rat(23, 1000), Dm |-> Rat(1, 5), D1 |-> Rat(3, 20), D2 |-> Rat(1, 10),
     mbr |-> Int_(15), R_c |-> Rat(3, 20), gap |-> Rat(1, 25), H |-> Rat(3, 20),
     alpha |-> Int_(60), At |-> Rat(3, 100), E_rel |-> Rat(1, 250),
     material |-> Str("duplex"), rho_p |-> Int_(2650), crushed |-> PyFalse,
     location |-> Str("downstream"), model |-> Str("nozzlevalve_wall")]

NotNumbers == {None, NaN}
Signs      == {Int_(-1), Zero}

Alt ==
    [v_m   |-> NotNumbers \cup Signs \cup {Str("string"), Int_(201)},
     rho_m |-> NotNumbers \cup Signs \cup {Rat(1, 10), Int_(1555)},
     mu_m  |-> NotNumbers \cup Signs \cup {Int_(1)},
     Q_s   |-> NotNumbers \cup Signs \cup {Int_(555)},
     R     |-> NotNumbers \cup Signs \cup {Rat(1, 10), Int_(51)},
     GF    |-> NotNumbers \cup Signs \cup {Rat(1, 2)},
     D     |-> NotNumbers \cup Signs \cup {Rat(1, 200), Int_(5)},
     d_p   |-> NotNumbers \cup Signs \cup {Rat(61, 100), Int_(6)},
     h     |-> NotNumbers \cup Signs \cup {Int_(1)},
     Dm    |-> NotNumbers \cup Signs \cup {Rat(1, 20), Rat(2, 25)},
     D1    |-> NotNumbers \cup Signs \cup {Int_(5)},
     D2    |-> NotNumbers \cup Signs \cup {Int_(5)},
     mbr   |-> NotNumbers \cup Signs \cup {Int_(51)},
     R_c   |-> NotNumbers \cup Signs,
     gap   |-> NotNumbers \cup Signs \cup {Rat(3, 20), Rat(1, 5)},
     H     |-> NotNumbers \cup Signs,
     alpha |-> NotNumbers \cup Signs \cup {Int_(10), Int_(80), Int_(85), Int_(90), Int_(100)},
     At    |-> NotNumbers \cup Signs,
     E_rel |-> {None, NaN},
     material |-> {Str("cr_37_tungsten"), Str("Duplex"), None},
     rho_p    |-> {None, NaN, Zero},
     crushed  |-> {PyTrue, Str("yes"), Int_(1)},
     location |-> {Str("upstream"), Str("Upstream"), Str("sideways"), None},
     model    |-> {Str("other")}]

\* the bundles over keys[i..] that differ from Base in at most `budget` keys
RECURSIVE Bundles(_, _, _)
Bundles(keys, i, budget) ==
    IF i > Len(keys) THEN {Sel(Base, {keys[j] : j \in 1..Len(keys)})}
    ELSE Bundles(keys, i + 1, budget) \cup
         (IF budget = 0 THEN {}
          ELSE {[b EXCEPT ![keys[i]] = x] :
                    b \in Bundles(keys, i + 1, budget - 1), x \in Alt[keys[i]]})

Inputs(keys) == Bundles(keys, 1, MaxDev)

\* the bundles over keys[i..] that differ from base in at most `budget` keys
RECURSIVE BundlesOf(_, _, _, _, _)
BundlesOf(base, alt, keys, i, budget) ==
    IF i > Len(keys) THEN {Sel(base, {keys[j] : j \in 1..Len(keys)})}
    ELSE BundlesOf(base, alt, keys, i + 1, budget) \cup
         (IF budget = 0 THEN {}
          ELSE {[b EXCEPT ![keys[i]] = x] :
                    b \in BundlesOf(base, alt, keys, i + 1, budget - 1), x \in alt[keys[i]]})

\* the calls of test_transport.py: hydro(0.1, 700, 1e-3, .1), stokes(200, 1e-5, .3, 50)
TransportBase ==
    [D |-> Rat(1, 10), rho_l |-> Int_(700), mu_l |-> Rat(1, 1000), d_p |-> Rat(3, 10),
     e |-> Rat(5, 100000), rho_p |-> Int_(2650), rho_m |-> Int_(200),
     mu_m |-> Rat(1, 100000), angle |-> Int_(50)]

NotTransportNumbers == {None, NaN, Str("string")}

TransportAlt ==
    [D     |-> NotTransportNumbers \cup Signs,
     rho_l |-> NotTransportNumbers \cup Signs,
     mu_l  |-> NotTransportNumbers \cup Signs,
     d_p   |-> NotTransportNumbers \cup Signs,
     e     |-> NotTransportNumbers \cup Signs,
     rho_p |-> NotTransportNumbers \cup Signs,
     rho_m |-> NotTransportNumbers \cup Signs,
     mu_m  |-> NotTransportNumbers \cup Signs,
     angle |-> NotTransportNumbers \cup Signs \cup
               {Int_(89), Rat(179, 2), Int_(90), Int_(95)}]

TransportParams ==
    [hydro  |-> <<"D", "rho_l", "mu_l", "d_p", "e", "rho_p">>,
     stokes |-> <<"rho_m", "mu_m", "d_p", "angle", "rho_p">>]

TransportInputs(keys) == BundlesOf(TransportBase, TransportAlt, keys, 1, MaxDev)

\* er_sand_rate: the valid call and the other values of the erosion functions,
\* and a measured erosion rate
ProbeBase == [k \in DOMAIN Base \cup {"E_meas"} |-> IF k = "E_meas" THEN Rat(723, 100) ELSE Base[k]]
ProbeAlt ==
    [k \in DOMAIN Alt \cup {"E_meas"} |->
        IF k = "E_meas" THEN {None, NaN, Str("string"), Int_(-1), Zero, Rat(1446, 100)} ELSE Alt[k]]
ProbeParams == <<"E_meas", "v_m", "rho_m", "D", "d_p", "alpha">>

\* what the bounded minimizer can return: x is within the bounds [0.001, 100]
MinimizerResults ==
    [res : {"result"}, success : BOOLEAN,
     x : {Rat(1, 1000), Rat(125, 1000), Rat(4338, 10000), Int_(100)}]

\* what one root-find can end in; the roots of test_hydro and a negative one
NewtonResults ==
    {[res |-> "root", exc |-> "", x |-> r] :
        r \in {Rat(5234, 10000), Rat(8567, 10000), Rat(-1, 8)}} \cup
    {[res |-> "raise", exc |-> e, x |-> None] : e \in {RuntimeError, ZeroDivisionError}}

\* relative roughnesses e / D (that of test_hydro, the bound 0.05 and its
\* neighbour) and Reynolds numbers on either side of 0, 2000 and 4000
EdArgs == {Zero, Rat(1, 2000), Rat(5, 100), Rat(6, 100)}
ReArgs == {Int_(-100), Zero, Int_(100), Int_(1999), Int_(2000), Int_(3999), Int_(4000),
           Int_(100000)}

\* what the root-find of line 64 can end in: a friction factor, a negative
\* root, no convergence
ColebrookResults ==
    {[res |-> "root", exc |-> "", x |-> r] : r \in {Rat(1, 50), Rat(-1, 8)}} \cup
    {[res |-> "raise", exc |-> RuntimeError, x |-> None]}

\* the root-finds are not reached when the validator ends the call
NewtonNotRun == [res |-> "none", exc |-> "", x |-> None]

\* the minimizer is not reached when the validator ends the call
NotRun == [res |-> "none", success |-> FALSE, x |-> None]

\* the minimizer returns no result when f raises
MinimizerRaised == [res |-> "raise", success |-> FALSE, x |-> None]

\* what the call of line 120 can end in, for the arguments a of stokes
MinimizerOutcomes(a) ==
    IF transport_validate_inputs(a).res # "none" THEN {NotRun}
    ELSE IF IsZero(a.mu_m) THEN {MinimizerRaised}
    ELSE MinimizerResults

\* relative erosion rates and sand rates of the repository's tests, and the
\* doubles of the sand rates
RateArgs == {Rat(3665, 1000000), Rat(54024, 1000000), Zero}
SandArgs == {Rat(1, 5), Rat(2, 5), Rat(6, 5), Rat(12, 5), Int_(2), Zero}

\* the parameters of the public functions (the def lines of erosion.py)
Params ==
    [bend |-> <<"v_m", "rho_m", "mu_m", "R", "GF", "D", "d_p", "material", "rho_p", "crushed">>,
     tee |-> <<"v_m", "rho_m", "mu_m", "GF", "D", "d_p", "material", "rho_p", "crushed">>,
     straight_pipe |-> <<"v_m", "D", "crushed">>,
     welded_joint |-> <<"v_m", "rho_m", "D", "d_p", "h", "alpha", "location", "material", "crushed">>,
     manifold |-> <<"v_m", "rho_m", "mu_m", "GF", "D", "d_p", "Dm", "rho_p", "material", "crushed">>,
     reducer |-> <<"v_m", "rho_m", "D1", "D2", "d_p", "GF", "alpha", "material", "crushed">>,
     probes |-> <<"v_m", "rho_m", "D", "d_p", "alpha", "material", "crushed">>,
     flexible |-> <<"v_m", "rho_m", "mu_m", "mbr", "D", "d_p", "material", "crushed">>,
     choke_gallery |-> <<"v_m", "rho_m", "mu_m", "GF", "D", "d_p", "R_c", "gap", "H", "material", "crushed">>,
     nozzlevalve_wall |-> <<"v_m", "d_p", "GF", "At", "material", "crushed">>,
     erosion_rate |-> <<"E_rel", "Q_s">>]

\* the keyword bundles validate_inputs is called with directly: those of the
\* public functions and of test_validate_inputs, and bundles no function builds
ValidatorBundles ==
    { <<"v_m", "rho_m", "mu_m", "Q_s">>, <<"Q_s", "v_m", "D">>, <<"Q_s", "v_m", "D", "rho_p">>,
      <<"Dm", "D">>, <<"h", "D">>, <<"Dm">>, <<"h">>, <<"d_p", "model">>, <<"model">>,
      <<"R_c", "gap", "H">>, <<"R_c", "gap">>, <<"gap">>, <<"H">>,
      <<"v_m", "R_c">>, <<"crushed">>, <<"v_m", "crushed">>, <<"d_p">>, <<"R", "GF">>,
      <<"alpha", "At">> }

\* values of 1.88 * np.log(A) - 6.04: that of the valid call (A = 48030),
\* smaller ones, zero and a negative one (A < 24.8)
LogTermValues == {Rat(71, 5), Int_(1), Rat(1, 100), Zero, Int_(-1)}

\* the calls of bend that reach line 148 with a real impact angle
CorrectionInputs == {a \in Inputs(Params.bend) : bend(a).kind = "num"}

\* the material arguments of a lookup: the identifiers of the table, and
\* strings that are none of them (other letter case, the empty string)
MaterialArgs ==
    {Str(material_dict[i].id) : i \in 1..Len(material_dict)} \cup
    {Str("Duplex"), Str("CARBON_STEEL"), Str("list"), Str("something_else"), Str("")}

(***************************************************************************)
(* The state machine: one action per public function.                      *)
(***************************************************************************)
NoCall == [fn |-> "", args |-> NoArgs]
NoOutcome == Plain("", <<>>)

Init == pc = "idle" /\ call = NoCall /\ outcome = NoOutcome /\ table = material_dict

Do(fn, a, r) ==
    call' = [fn |-> fn, args |-> a] /\ outcome' = r /\ pc' = "done" /\ table' = table

CallValidateInputs ==
    /\ pc = "idle"
    /\ \E keys \in ValidatorBundles : \E a \in Inputs(keys) :
          Do("validate_inputs", a, ValidatorOutcome(validate_inputs(a)))

CallBend ==
    pc = "idle" /\ \E a \in Inputs(Params.bend) : Do("bend", a, bend(a))

CallTee ==
    pc = "idle" /\ \E a \in Inputs(Params.tee) : Do("tee", a, tee(a))

CallStraightPipe ==
    pc = "idle" /\ \E a \in Inputs(Params.straight_pipe) : Do("straight_pipe", a, straight_pipe(a))

CallWeldedJoint ==
    pc = "idle" /\ \E a \in Inputs(Params.welded_joint) : Do("welded_joint", a, welded_joint(a))

CallManifold ==
    pc = "idle" /\ \E a \in Inputs(Params.manifold) : Do("manifold", a, manifold(a))

CallReducer ==
    pc = "idle" /\ \E a \in Inputs(Params.reducer) : Do("reducer", a, reducer(a))

CallProbes ==
    pc = "idle" /\ \E a \in Inputs(Params.probes) : Do("probes", a, probes(a))

CallFlexible ==
    pc = "idle" /\ \E a \in Inputs(Params.flexible) : Do("flexible", a, flexible(a))

CallChokeGallery ==
    pc = "idle" /\ \E a \in Inputs(Params.choke_gallery) : Do("choke_gallery", a, choke_gallery(a))

CallNozzlevalveWall ==
    pc = "idle" /\ \E a \in Inputs(Params.nozzlevalve_wall) :
        Do("nozzlevalve_wall", a, nozzlevalve_wall(a))

CallErosionRate ==
    pc = "idle" /\
    \E a \in Inputs(Params.erosion_rate) \cup [E_rel : RateArgs, Q_s : SandArgs \cup {Int_(-1)}] :
        Do("erosion_rate", a, erosion_rate(a))

CallGetMaterialProperties ==
    pc = "idle" /\ \E m \in MaterialArgs :
        Do("get_material_properties", [material |-> m], get_material_properties_outcome(m))

CallGetMaterials ==
    pc = "idle" /\ Do("get_materials", NoArgs, Returned(get_materials, <<>>))

CallF ==
    pc = "idle" /\ \E a_rad \in AngleArgs, angle_dependency \in ClassArgs :
        Do("F", [a_rad |-> a_rad, angle_dependency |-> angle_dependency],
           F(a_rad, angle_dependency))

CallStokes ==
    pc = "idle" /\ \E a \in TransportInputs(TransportParams.stokes) :
        \E m \in MinimizerOutcomes(a) :
            Do("stokes", [kwargs |-> a, minimize_scalar |-> m], stokes(a, m))

CallHydro ==
    pc = "idle" /\ \E a \in TransportInputs(TransportParams.hydro) :
        \E n \in IF transport_validate_inputs(a).res = "none"
                  THEN [bed : NewtonResults, scouring : NewtonResults]
                  ELSE {[bed |-> NewtonNotRun, scouring |-> NewtonNotRun]} :
            Do("hydro", [kwargs |-> a, newton |-> n], hydro(a, n))

CallErSandRate ==
    pc = "idle" /\ \E a \in BundlesOf(ProbeBase, ProbeAlt, ProbeParams, 1, MaxDev) :
        Do("er_sand_rate", a, er_sand_rate(a))

CallMinChoke ==
    pc = "idle" /\ \E Qs \in QsArgs, v_c \in VcArgs :
        Do("min_choke", [Qs |-> Qs, v_c |-> v_c], min_choke(Qs, v_c))

\* one evaluation of moody by critical_u (line 74)
CallMoody ==
    /\ pc = "idle"
    /\ \E ed \in EdArgs, Re \in ReArgs :
        \E nw \in IF RLt(Re, Int_(2000)) THEN {NewtonNotRun} ELSE ColebrookResults :
            Do("moody", [ed |-> ed, Re |-> Re, newton |-> nw], moody(ed, Re, nw))

\* the step of bend that computes G (lines 148-157)
BendParticleSizeCorrection ==
    /\ pc = "idle"
    /\ \E a \in CorrectionInputs : \E x \in LogTermValues :
          Do("particle_size_correction", a, particle_size_correction(a, x))

CallGetMaterialsData ==
    pc = "idle" /\ Do("get_materials_data", NoArgs, get_materials_data)

\* the caller has the result; the library keeps nothing of the call
Return ==
    pc = "done" /\ pc' = "idle" /\ call' = NoCall /\ outcome' = NoOutcome /\ table' = table

Next ==
    \/ CallValidateInputs
    \/ CallBend
    \/ CallTee
    \/ CallStraightPipe
    \/ CallWeldedJoint
    \/ CallManifold
    \/ CallReducer
    \/ CallProbes
    \/ CallFlexible
    \/ CallChokeGallery
    \/ CallNozzlevalveWall
    \/ CallErosionRate
    \/ CallGetMaterialProperties
    \/ CallGetMaterials
    \/ CallGetMaterialsData
    \/ CallF
    \/ CallStokes
    \/ CallHydro
    \/ CallErSandRate
    \/ CallMinChoke
    \/ BendParticleSizeCorrection
    \/ CallMoody
    \/ Return

Spec == Init /\ [][Next]_vars

(***************************************************************************)
(* A caller that writes to what the calls returned.  The list of           *)
(* get_materials is a new list and the tuple of get_material_properties is *)
(* immutable; the mapping of get_materials_data is material_dict itself,   *)
(* so an item assignment or a del on it is a write to the table.           *)
(***************************************************************************)
\* materials = get_materials(); materials.clear()
CallerClearsList ==
    /\ pc = "done" /\ call.fn = "get_materials" /\ outcome.value # <<>>
    /\ outcome' = [outcome EXCEPT !.value = <<>>]
    /\ UNCHANGED <<pc, call, table>>

\* data = get_materials_data(); data['carbon_steel']['rho_t'] = 1
CallerSetsDensity ==
    /\ pc = "done" /\ outcome.kind = "mapping"
    /\ \E i \in 1..Len(table) :
          /\ table[i].id = "carbon_steel"
          /\ table' = [table EXCEPT ![i].rho_t = 1]
    /\ UNCHANGED <<pc, call, outcome>>

\* data = get_materials_data(); del data['SiSiC_ceramic_carbide']
CallerDeletesMaterial ==
    /\ pc = "done" /\ outcome.kind = "mapping"
    /\ \E i \in 1..Len(table) :
          /\ table[i].id = "SiSiC_ceramic_carbide"
          /\ table' = [j \in 1..(Len(table) - 1) |-> IF j < i THEN table[j] ELSE table[j + 1]]
    /\ UNCHANGED <<pc, call, outcome>>

NextCaller ==
    \/ Next
    \/ CallerClearsList
    \/ CallerSetsDensity
    \/ CallerDeletesMaterial

SpecCaller == Init /\ [][NextCaller]_vars

TypeOK ==
    /\ pc \in {"idle", "done"}
    /\ outcome.kind \in {"", "num", "nan", "none", "true", "complex", "raise", "value", "mapping",
                       "inf"}

(***************************************************************************)
(* Properties of the erosion functions.                                    *)
(***************************************************************************)
GeometryFns ==
    {"bend", "tee", "straight_pipe", "welded_joint", "manifold", "reducer", "probes",
     "flexible", "choke_gallery", "nozzlevalve_wall"}

Done(fn) == pc = "done" /\ call.fn = fn

IsNumber(v)  == v.t = "num"
IsNegNum(v)  == v.t = "num" /\ v.n < 0
IsPosNum(v)  == v.t = "num" /\ v.n > 0
NotANumber(v) == v.t \in {"none", "str", "nan"}

\* a value of parameter k that no check objects to: the one of the valid call,
\* any material of the table, any boolean, either weld location
ValidValue(k, x) ==
    \/ x = Base[k]
    \/ k = "material" /\ InMaterialDict(x)
    \/ k = "crushed" /\ x.t = "bool"
    \/ k = "location" /\ x = Str("upstream")

\* every argument of the call but k is valid
OthersValid(k) == \A j \in DOMAIN call.args \ {k} : ValidValue(j, call.args[j])

\* the public function fn on the arguments a
Eval(fn, a) ==
    CASE fn = "bend" -> bend(a)
      [] fn = "tee" -> tee(a)
      [] fn = "straight_pipe" -> straight_pipe(a)
      [] fn = "welded_joint" -> welded_joint(a)
      [] fn = "manifold" -> manifold(a)
      [] fn = "reducer" -> reducer(a)
      [] fn = "probes" -> probes(a)
      [] fn = "flexible" -> flexible(a)
      [] fn = "choke_gallery" -> choke_gallery(a)
      [] fn = "nozzlevalve_wall" -> nozzlevalve_wall(a)
      [] fn = "erosion_rate" -> erosion_rate(a)

\* C1: a public function called with one of the monitored inputs it takes
\* (v_m, rho_m, mu_m, Q_s) negative, and every other argument valid, returns
\* NaN and raises nothing; manifold, flexible and choke_gallery included.
C1_NegativeMonitoredInputGivesNaN ==
    \A k \in {"v_m", "rho_m", "mu_m", "Q_s"} :
        (/\ pc = "done"
         /\ call.fn \in GeometryFns \cup {"erosion_rate"}
         /\ k \in DOMAIN call.args
         /\ IsNegNum(call.args[k])
         /\ OthersValid(k))
        => outcome.kind = "nan"

\* choke_gallery has returned NaN for a negative v_m: the derived gallery
\* velocity was negative when bend's validator saw it
C1_Witness ==
    /\ Done("choke_gallery")
    /\ call.args.v_m = Int_(-1)
    /\ OthersValid("v_m")
    /\ outcome.kind = "nan"

NumericParams ==
    {"v_m", "rho_m", "mu_m", "R", "GF", "D", "d_p", "h", "Dm", "D1", "D2", "mbr",
     "R_c", "gap", "H", "alpha", "At", "rho_p"}

\* C2: a geometry function called with None, a non-numeric value or NaN for
\* one of its numeric parameters raises FunctionInputFail, whatever the other
\* arguments are: it returns nothing and raises no other exception.
C2_NotANumberRaisesFunctionInputFail ==
    (/\ pc = "done"
     /\ call.fn \in GeometryFns
     /\ \E k \in NumericParams \cap DOMAIN call.args : NotANumber(call.args[k]))
    => (outcome.kind = "raise" /\ outcome.exc = FunctionInputFail)

\* C3: a geometry function called with a crushed value that is not a boolean
\* raises FunctionInputFail.
C3_NonBooleanCrushedRaises ==
    (/\ pc = "done"
     /\ call.fn \in GeometryFns
     /\ call.args.crushed.t # "bool")
    => (outcome.kind = "raise" /\ outcome.exc = FunctionInputFail)

\* C4: a geometry function called with a zero or negative pipe diameter (D,
\* D1, D2), every other argument valid, raises FunctionInputFail.
C4_NonPositiveDiameterRaises ==
    \A k \in {"D", "D1", "D2"} :
        (/\ pc = "done"
         /\ call.fn \in GeometryFns
         /\ k \in DOMAIN call.args
         /\ IsNumber(call.args[k]) /\ call.args[k].n <= 0
         /\ OthersValid(k))
        => (outcome.kind = "raise" /\ outcome.exc = FunctionInputFail)

\* C5: the validator never passes, and no geometry function returns a value,
\* when d_p, R, GF, h, alpha or At is supplied as a negative number.
C5_NegativeGeometryInputRejected ==
    (/\ pc = "done"
     /\ call.fn \in GeometryFns \cup {"validate_inputs"}
     /\ \E k \in {"d_p", "R", "GF", "h", "alpha", "At"} \cap DOMAIN call.args :
            IsNegNum(call.args[k]))
    => outcome.kind \notin {"none", "num", "complex"}

\* a value of parameter k that is valid or violates an advisory range only: any
\* bend radius, any positive manifold diameter, a mix density or viscosity
\* that is not negative
AdvisoryOnly(k, x) ==
    \/ ValidValue(k, x)
    \/ k = "R" /\ IsNumber(x)
    \/ k = "Dm" /\ IsPosNum(x)
    \/ k \in {"rho_m", "mu_m"} /\ IsNumber(x) /\ x.n >= 0

\* C6: a geometry function called on a bundle whose only violations are of
\* advisory ranges (R outside [0.5, 50], zero and negative included; Dm < D;
\* rho_m or mu_m below its lower bound) returns a number and raises nothing.
C6_AdvisoryViolationsStillGiveANumber ==
    (/\ pc = "done"
     /\ call.fn \in GeometryFns
     /\ \A k \in DOMAIN call.args : AdvisoryOnly(k, call.args[k]))
    => outcome.kind = "num"

\* no fatal and no negative-monitored-input condition of the validator holds
\* on the keyword bundle a: every value is a number (model: a string, crushed: a
\* boolean), no monitored input and no d_p is negative, the diameters and the
\* choke dimensions are positive, the gap is at most R_c, and D comes with h, Dm
NoFatalCondition(a) ==
    /\ \A k \in DOMAIN a \ {"model", "crushed"} : IsNumber(a[k])
    /\ "crushed" \in DOMAIN a => a["crushed"].t = "bool"
    /\ "model" \in DOMAIN a => a["model"].t = "str" /\ "d_p" \in DOMAIN a
    /\ \A k \in DOMAIN a \cap {"v_m", "rho_m", "mu_m", "Q_s", "d_p"} : a[k].n >= 0
    /\ \A k \in DOMAIN a \cap {"D", "D1", "D2", "R_c", "gap", "H"} : a[k].n > 0
    /\ {"gap", "R_c"} \subseteq DOMAIN a => RLe(a["gap"], a["R_c"])
    /\ DOMAIN a \cap {"h", "Dm"} # {} => "D" \in DOMAIN a

\* some physical-range advisory of lines 49-113 applies to the bundle a
AdvisoryCondition(a) ==
    \/ "v_m" \in DOMAIN a /\ RGt(a["v_m"], Int_(200))
    \/ "rho_m" \in DOMAIN a /\ (RLt(a["rho_m"], Int_(1)) \/ RGt(a["rho_m"], Int_(1500)))
    \/ "mu_m" \in DOMAIN a /\ (RLt(a["mu_m"], Rat(1, 1000000)) \/ RGt(a["mu_m"], Rat(1, 100)))
    \/ \E k \in DOMAIN a \cap {"D", "D1", "D2"} : RLt(a[k], Rat(1, 100)) \/ RGt(a[k], Int_(1))
    \/ "d_p" \in DOMAIN a /\ (RLt(a["d_p"], Rat(2, 100)) \/ RGt(a["d_p"], Int_(5)))
    \/ "GF" \in DOMAIN a /\ RLt(a["GF"], Int_(1))
    \/ "R" \in DOMAIN a /\ (RLt(a["R"], Rat(1, 2)) \/ RGt(a["R"], Int_(50)))
    \/ "Dm" \in DOMAIN a /\ RLt(a["Dm"], a["D"])
    \/ "h" \in DOMAIN a /\ (RLt(a["h"], Zero) \/ RGt(a["h"], a["D"]))
    \/ "model" \in DOMAIN a /\ a["model"] = Str("nozzlevalve_wall") /\ RGt(a["d_p"], Rat(6, 10))

\* C7: on a bundle of numbers on which an advisory range condition holds and no
\* fatal or negative-monitored-input condition does, validate_inputs logs a
\* diagnostic, raises nothing and returns None; the geometry-factor
\* diagnostic is logged exactly when GF < 1.
C7_RangeChecksAreAdvisoryOnly ==
    (/\ Done("validate_inputs")
     /\ NoFatalCondition(call.args)
     /\ AdvisoryCondition(call.args))
    => /\ outcome.kind = "none"
       /\ Len(outcome.log) > 0
       /\ "GF" \in DOMAIN call.args =>
            ((\E i \in 1..Len(outcome.log) : outcome.log[i] = <<"range", "GF">>)
                <=> RLt(call.args["GF"], Int_(1)))

\* r1 is exactly three times the number r0
TripleOf(r0, r1) ==
    r0.kind = "num" => r1 = [r0 EXCEPT !.ops = Append(@, "*3")]

\* C8: where a geometry function returns a number with crushed = False, it
\* returns exactly 3 times that number with crushed = True: the factor is
\* applied once, in the delegating functions and both weld locations too.
C8_CrushedTriplesExactlyOnce ==
    (/\ pc = "done"
     /\ call.fn \in GeometryFns
     /\ call.args.crushed = PyTrue)
    => TripleOf(Eval(call.fn, [call.args EXCEPT !.crushed = PyFalse]), outcome)

\* choke_gallery has returned, with crushed = True, its bend value scaled by
\* 1 / 2.5, by 1.25 and then once by 3
C8_Witness ==
    /\ Done("choke_gallery")
    /\ call.args.crushed = PyTrue
    /\ outcome.kind = "num"
    /\ outcome.ops = <<"/2.5", "*1.25", "*3">>

\* R_c, gap or H is zero or negative, or the gap exceeds R_c, in the bundle a
ChokeViolation(a) ==
    \/ \E k \in {"R_c", "gap", "H"} \cap DOMAIN a : IsNumber(a[k]) /\ a[k].n <= 0
    \/ /\ {"R_c", "gap"} \subseteq DOMAIN a
       /\ IsNumber(a["R_c"]) /\ IsNumber(a["gap"])
       /\ RGt(a["gap"], a["R_c"])

\* R_c, gap and H are positive and the gap equals R_c in the bundle a
ChokeGapEqualsRadius(a) ==
    /\ {"R_c", "gap", "H"} \subseteq DOMAIN a
    /\ \A k \in {"R_c", "gap", "H"} : IsPosNum(a[k])
    /\ a["gap"] = a["R_c"]

C9_WitnessEqual ==
    /\ Done("validate_inputs")
    /\ ChokeGapEqualsRadius(call.args)
    /\ outcome.kind = "none"

\* C10: welded_joint with otherwise valid inputs returns the downstream
\* formula value for location 'downstream', the upstream formula value for
\* 'upstream', and raises FunctionInputFail for every other location.
C10_WeldLocationDispatch ==
    (Done("welded_joint") /\ OthersValid("location"))
    => IF call.args.location = Str("downstream")
       THEN outcome.kind = "num" /\ outcome.term = "welded_joint_downstream"
       ELSE IF call.args.location = Str("upstream")
       THEN outcome.kind = "num" /\ outcome.term = "welded_joint_upstream"
       ELSE outcome.kind = "raise" /\ outcome.exc = FunctionInputFail

\* welded_joint has raised FunctionInputFail for a location in the wrong case
C10_Witness ==
    /\ Done("welded_joint")
    /\ OthersValid("location")
    /\ call.args.location = Str("Upstream")
    /\ outcome.kind = "raise" /\ outcome.exc = FunctionInputFail

\* the identifiers of the table as written in the source, in its order
ListedMaterials == [i \in 1..Len(material_dict) |-> material_dict[i].id]

\* the record of the listed identifier id, as written in the source
ListedRecord(id) ==
    LET i == CHOOSE j \in 1..Len(material_dict) : material_dict[j].id = id
    IN  <<material_dict[i].rho_t, material_dict[i].K, material_dict[i].n,
          material_dict[i].angle_dependency>>

IsListed(id) == \E i \in 1..Len(ListedMaterials) : ListedMaterials[i] = id

C11_WitnessListed ==
    /\ Done("get_material_properties")
    /\ call.args.material = Str("psz_ceramic_zirconia")
    /\ outcome.value = <<5700, [m |-> 41, e |-> -10], Rat(25, 10), "brittle">>

\* C12: the material table is read-only after initialisation: after any
\* sequence of public calls, and whatever the caller does with the values
\* those calls returned, the set of identifiers is the one the module
\* defines and get_material_properties returns for every identifier the
\* record the module defines.
C12_TableReadOnly ==
    /\ {get_materials[i] : i \in 1..Len(get_materials)}
         = {ListedMaterials[i] : i \in 1..Len(ListedMaterials)}
    /\ \A i \in 1..Len(ListedMaterials) :
          get_material_properties_outcome(Str(ListedMaterials[i]))
            = Returned(ListedRecord(ListedMaterials[i]), <<>>)

\* what does hold: a write to the list of get_materials leaves the table alone
C12_ListIsACopy ==
    [][CallerClearsList => table' = table /\ get_materials' = get_materials]_vars

\* every float of the enclosure e is within tol of the number r
Within(e, r, tol) == RLe(RSub(r, e.lo), tol) /\ RLe(RSub(e.hi, r), tol)

\* C13: F dispatches on the class only: for 'ductile' and 'brittle' F(0) = 0;
\* for 'brittle' it is 2 * angle / pi, so that F(pi/4) = 0.5 and F(pi/2) = 1
\* exactly; for 'ductile' F(pi/2) is 0.6 within 1e-6; for every other class
\* value it raises FunctionInputFail for every angle.
C13_AngleDependencyDispatch ==
    Done("F") =>
        LET q == call.args.a_rad
            c == call.args.angle_dependency
        IN  /\ c \in {Str("ductile"), Str("brittle")} /\ q = Zero
                => outcome.kind = "value" /\ outcome.value = Exactly(Zero)
            /\ c = Str("brittle") /\ IsNumber(q)
                => outcome.kind = "value" /\ outcome.value = Exactly(RMul(Int_(2), q))
            /\ c = Str("brittle") /\ q = Rat(1, 4)
                => outcome.value = Exactly(Rat(1, 2))
            /\ c = Str("brittle") /\ q = Rat(1, 2)
                => outcome.value = Exactly(Int_(1))
            /\ c = Str("ductile") /\ q = Rat(1, 2)
                => outcome.kind = "value"
                   /\ Within(outcome.value, Rat(6, 10), Rat(1, 1000000))
            /\ c \notin {Str("ductile"), Str("brittle")}
                => outcome.kind = "raise" /\ outcome.exc = FunctionInputFail

\* F(pi/2, 'ductile') has returned a float below 0.6 and within 1e-6 of it
C13_Witness ==
    /\ Done("F")
    /\ call.args = [a_rad |-> Rat(1, 2), angle_dependency |-> Str("ductile")]
    /\ outcome.kind = "value" /\ RLt(outcome.value.lo, Rat(6, 10))

\* F(None, 'Ductile') has raised FunctionInputFail
C13_WitnessOtherClass ==
    /\ Done("F")
    /\ call.args = [a_rad |-> None, angle_dependency |-> Str("Ductile")]
    /\ outcome.kind = "raise" /\ outcome.exc = FunctionInputFail

\* C14: erosion_rate is linear in the sand rate: for every relative erosion
\* rate E_rel and every Q_s >= 0, erosion_rate(E_rel, 2 * Q_s) equals
\* 2 * erosion_rate(E_rel, Q_s), the value being
\* (E_rel / 10^6) * (Q_s / 1000) * (1000 * 3600 * 24 * 365.25), which is
\* E_rel * Q_s * 31.5576; for a negative Q_s it returns NaN without raising.
C14_ErosionRateLinearInSandRate ==
    Done("erosion_rate") /\ IsNumber(call.args.E_rel) /\ IsNumber(call.args.Q_s) =>
        IF IsNeg(call.args.Q_s) THEN outcome.kind = "nan"
        ELSE /\ outcome.kind = "num"
             /\ erosion_rate([call.args EXCEPT !.Q_s = RMul(Int_(2), @)]).value
                  = RMul(Int_(2), outcome.value)
             /\ outcome.value
                  = RMul(RMul(call.args.E_rel, call.args.Q_s), Rat(315576, 10000))

\* erosion_rate(0.003665, 1.2) has returned 0.138790324..., the 0.1387903 of
\* the repository's test
C14_Witness ==
    /\ Done("erosion_rate")
    /\ call.args = [E_rel |-> Rat(3665, 1000000), Q_s |-> Rat(6, 5)]
    /\ outcome.kind = "num"
    /\ outcome.value = Rat(86743953, 625000000)

\* erosion_rate(0.003665, 2.4) has returned twice that
C14_WitnessDouble ==
    /\ Done("erosion_rate")
    /\ call.args = [E_rel |-> Rat(3665, 1000000), Q_s |-> Rat(12, 5)]
    /\ outcome.value = RMul(Int_(2), E(Rat(3665, 1000000), Rat(6, 5)))

(***************************************************************************)
(* Properties of the transport functions.                                  *)
(***************************************************************************)
\* every field of the bundle a but the angle is a number that is not negative
FieldsValid(a) ==
    \A k \in DOMAIN a \ {"angle"} : IsInstanceNumber(a[k]) /\ ~IsNan(a[k]) /\ RGe(a[k], Zero)

\* C15: stokes accepts every inclination with 0 <= angle < 90 (the validator
\* passes and a velocity is computed) and raises FunctionInputFail for every
\* angle < 0 and every angle >= 90; non-integer angles between 89 and 90 are
\* accepted.
C15_AngleBelow90Accepted ==
    Done("stokes") /\ FieldsValid(call.args.kwargs) /\ IsNumber(call.args.kwargs.angle) =>
        LET angle == call.args.kwargs.angle
            fails == outcome.kind = "raise" /\ outcome.exc = FunctionInputFail
        IN  IF RGe(angle, Zero) /\ RLt(angle, Int_(90)) THEN ~fails ELSE fails

\* what the code does: angles up to and including 89 are accepted, every
\* other one is rejected, 89.5 included
C15_AngleUpTo89Accepted ==
    Done("stokes") /\ FieldsValid(call.args.kwargs) /\ IsNumber(call.args.kwargs.angle) =>
        LET angle == call.args.kwargs.angle
            fails == outcome.kind = "raise" /\ outcome.exc = FunctionInputFail
        IN  IF RGe(angle, Zero) /\ RLe(angle, Int_(89)) THEN ~fails ELSE fails

\* stokes(200, 1e-5, .3, 89.5) has raised FunctionInputFail
C15_Rejected895 ==
    /\ Done("stokes")
    /\ FieldsValid(call.args.kwargs)
    /\ call.args.kwargs.angle = Rat(179, 2)
    /\ outcome.kind = "raise" /\ outcome.exc = FunctionInputFail

\* the field k of the bundle a is a negative number and every other field is
\* valid (the angle: a number from 0 to 89)
OneNegative(a, k) ==
    /\ IsNegNum(a[k])
    /\ \A j \in DOMAIN a \ {k, "angle"} : IsNumber(a[j]) /\ RGe(a[j], Zero)
    /\ "angle" \in DOMAIN a =>
          IsNumber(a.angle) /\ RGe(a.angle, Zero) /\ RLe(a.angle, Int_(89))

RaisedFunctionInputFail == outcome.kind = "raise" /\ outcome.exc = FunctionInputFail

RECURSIVE FirstOffender(_, _)
FirstOffender(a, i) ==
    IF i > Len(TransportKeys) THEN ""
    ELSE IF TransportKeys[i] \in DOMAIN a /\ ~(IsInstanceNumber(a[TransportKeys[i]])
                                                /\ ~IsNan(a[TransportKeys[i]])
                                                /\ RGe(a[TransportKeys[i]], Zero))
         THEN TransportKeys[i]
    ELSE FirstOffender(a, i + 1)

C16_HydroSoftFail ==
    /\ Done("hydro")
    /\ OneNegative(call.args.kwargs, "d_p")
    /\ outcome.kind = "nan" /\ outcome.log = << <<"negative", "d_p">> >>

\* v is x rounded to 2 decimals: a whole number of hundredths, at most half a
\* hundredth away from x
RoundedTo2(v, x) ==
    /\ IsNumber(v) /\ 100 % v.d = 0
    /\ RLe(RSub(v, x), Rat(1, 200)) /\ RLe(RSub(x, v), Rat(1, 200))

\* C17: for inputs that pass the transport validator, every value hydro
\* returns is a list of exactly two velocities in the order [bed-formation
\* threshold, scouring threshold], each rounded to 2 decimals, and such a pair
\* is returned only when both root-finds converged; when a root-find does not
\* converge the call ends in a raised failure and returns no velocity at all.
C17_HydroReturnsBothThresholdsOrRaises ==
    Done("hydro") /\ transport_validate_inputs(call.args.kwargs).res = "none" =>
        LET n == call.args.newton IN
        /\ outcome.kind \in {"value", "raise"}
        /\ outcome.kind = "value" =>
              /\ n.bed.res = "root" /\ n.scouring.res = "root"
              /\ Len(outcome.value) = 2
              /\ RoundedTo2(outcome.value[1], n.bed.x)
              /\ RoundedTo2(outcome.value[2], n.scouring.x)
        /\ n.bed.res = "raise" \/ n.scouring.res = "raise" =>
              outcome.kind = "raise" /\ outcome.value = None

\* hydro(0.1, 700, 1e-3, ...) has returned [0.52, 0.86] for the roots 0.5234
\* and 0.8567
C17_Witness ==
    /\ Done("hydro")
    /\ call.args.newton.bed.x = Rat(5234, 10000)
    /\ call.args.newton.scouring.x = Rat(8567, 10000)
    /\ outcome.kind = "value"
    /\ outcome.value = <<Rat(52, 100), Rat(86, 100)>>

\* the second root-find has not converged and hydro has raised RuntimeError
C17_WitnessNotConverged ==
    /\ Done("hydro")
    /\ call.args.newton.bed.res = "root"
    /\ call.args.newton.scouring.exc = RuntimeError
    /\ outcome.kind = "raise" /\ outcome.exc = RuntimeError

\* the call has logged the diagnostic of a negative input
NegativeDiagnostic == \E i \in 1..Len(outcome.log) : outcome.log[i][1] = "negative"

\* C18: stokes returns the minimizer rounded to 2 decimals if and only if the
\* bounded minimizer over [0.001, 100] reports success; when it does not
\* report success stokes returns NaN, raises nothing, and emits a
\* non-convergence diagnostic that differs from the diagnostic of a negative
\* input, so the two NaN outcomes are distinguishable.
C18_StokesSuccessOrDistinguishableNaN ==
    Done("stokes") =>
        LET m == call.args.minimize_scalar IN
        /\ (outcome.kind = "value") = (m.res = "result" /\ m.success)
        /\ outcome.kind = "value" => RoundedTo2(outcome.value, m.x)
        /\ m.res = "result" /\ ~m.success =>
              /\ outcome.kind = "nan"
              /\ outcome.log = <<NotConverged>>
              /\ ~NegativeDiagnostic
        /\ outcome.kind = "nan" /\ m.res # "result" =>
              NegativeDiagnostic /\ outcome.log # <<NotConverged>>

\* the minimizer has not reported success and stokes has returned NaN with
\* the non-convergence diagnostic
C18_Witness ==
    /\ Done("stokes")
    /\ call.args.minimize_scalar.res = "result"
    /\ ~call.args.minimize_scalar.success
    /\ outcome.kind = "nan" /\ outcome.log = <<NotConverged>>

\* stokes(200, 1e-5, .3, 50) has returned 0.43 for the minimizer 0.4338
C18_WitnessSuccess ==
    /\ Done("stokes")
    /\ call.args.minimize_scalar = [res |-> "result", success |-> TRUE, x |-> Rat(4338, 10000)]
    /\ outcome.kind = "value" /\ outcome.value = Rat(43, 100)

\* stokes(200, 0, .3, 50) has raised ZeroDivisionError
C18_ZeroViscosityRaises ==
    /\ Done("stokes")
    /\ call.args.minimize_scalar = MinimizerRaised
    /\ outcome.kind = "raise" /\ outcome.exc = ZeroDivisionError

(***************************************************************************)
(* Properties of the probe and choke functions.                            *)
(***************************************************************************)
\* C19: er_sand_rate inverts the probe erosion model: for E_meas >= 0 and
\* valid positive v_m, rho_m, D, d_p and alpha, Q = er_sand_rate(E_meas, v_m,
\* rho_m, D, d_p, alpha) satisfies erosion_rate(probes(v_m, rho_m, D, d_p,
\* alpha), Q) = E_meas, because Q is E_meas divided by the theoretical
\* erosion rate at Q_s = 1; a negative E_meas or v_m raises FunctionInputFail
\* instead of returning NaN.
C19_SandRateInvertsProbeModel ==
    Done("er_sand_rate") =>
        LET a == call.args
            P == Mono(Int_(1), 1)
        IN  /\ IsNumber(a.E_meas) /\ RGe(a.E_meas, Zero)
               /\ (\A k \in {"v_m", "rho_m", "D", "d_p", "alpha"} : IsPosNum(a[k]))
                => /\ outcome.kind = "num"
                   \* Q = E_meas / erosion_rate(P, 1)
                   /\ outcome.value = Mono(RDiv(a.E_meas, E(Int_(1), Int_(1))), -1)
                   \* erosion_rate(P, Q) = E_meas
                   /\ E_of(P, outcome.value) = Mono(a.E_meas, 0)
            /\ IsNegNum(a.E_meas) \/ IsNegNum(a.v_m)
                => outcome.kind = "raise" /\ outcome.exc = FunctionInputFail

\* er_sand_rate(7.23, 30, 30, 0.1, 0.4, 60) has returned 7.23 / (31.5576 * P)
C19_Witness ==
    /\ Done("er_sand_rate")
    /\ call.args = Sel(ProbeBase, {ProbeParams[i] : i \in 1..Len(ProbeParams)})
    /\ outcome.kind = "num"
    /\ outcome.value = Mono(RDiv(Rat(723, 100), Rat(315576, 10000)), -1)

\* er_sand_rate(7.23, -1, ...) has raised FunctionInputFail
C19_WitnessNegativeVelocity ==
    /\ Done("er_sand_rate")
    /\ call.args.E_meas = Rat(723, 100) /\ call.args.v_m = Int_(-1)
    /\ outcome.kind = "raise" /\ outcome.exc = FunctionInputFail

\* the band of x among the thresholds lo < hi: 1 below lo, 2 from lo up to
\* but not including hi, 3 from hi on
Band(x, lo, hi) == IF RLt(x, lo) THEN 1 ELSE IF RLt(x, hi) THEN 2 ELSE 3

\* the banded table: rows by sand rate, columns by velocity
ChokeTable ==
    << <<Rat(5, 100), Rat(5, 100), Rat(1, 10)>>,
       <<Rat(5, 100), Rat(1, 10),  Rat(2, 10)>>,
       <<Rat(1, 10),  Rat(2, 10),  Rat(2, 10)>> >>

\* C20: min_choke(Qs, v_c) is total and returns exactly one of 0.05, 0.1, 0.2
\* according to the banded table: for Qs < 0.01 it is 0.05 when v_c < 100 and
\* 0.1 otherwise; for 0.01 <= Qs < 0.1 it is 0.05 when v_c < 50, 0.1 when
\* 50 <= v_c < 100 and 0.2 otherwise; for Qs >= 0.1 it is 0.1 when v_c < 50
\* and 0.2 otherwise.  Each boundary value (Qs = 0.01, Qs = 0.1, v_c = 50,
\* v_c = 100) belongs to the higher band.
C20_MinChokeBandedTable ==
    Done("min_choke") /\ IsNumber(call.args.Qs) /\ IsNumber(call.args.v_c) =>
        LET Qs  == call.args.Qs
            v_c == call.args.v_c
        IN  /\ outcome.kind = "value"
            /\ outcome.value \in {Rat(5, 100), Rat(1, 10), Rat(2, 10)}
            /\ outcome.value
                 = ChokeTable[Band(Qs, Rat(1, 100), Rat(1, 10))][Band(v_c, Int_(50), Int_(100))]
            /\ Qs = Rat(1, 100) /\ v_c = Int_(50)  => outcome.value = Rat(1, 10)
            /\ Qs = Rat(1, 100) /\ v_c = Int_(100) => outcome.value = Rat(2, 10)
            /\ Qs = Rat(1, 10)  /\ v_c = Int_(50)  => outcome.value = Rat(2, 10)
            /\ Qs = Rat(9, 1000) /\ v_c = Int_(100) => outcome.value = Rat(1, 10)

\* min_choke(0.01, 50) has returned 0.1: both arguments on a boundary
C20_Witness ==
    /\ Done("min_choke")
    /\ call.args = [Qs |-> Rat(1, 100), v_c |-> Int_(50)]
    /\ outcome.kind = "value" /\ outcome.value = Rat(1, 10)

(***************************************************************************)
(* Properties of the protocol of the geometry functions.                   *)
(***************************************************************************)
\* the geometry functions that look a material up (all but straight_pipe)
MaterialFns == GeometryFns \ {"straight_pipe"}

\* every argument of the call outside the set ks is valid
ValidBut(ks) == \A j \in DOMAIN call.args \ ks : ValidValue(j, call.args[j])

\* C21: a material-dependent geometry function runs validator, material
\* lookup, formula in this order: with valid numeric inputs an unknown
\* material raises FunctionInputFail; with a negative monitored input the
\* call returns NaN whatever the material and, for welded_joint, the
\* location are, and raises nothing.
C21_ValidatorBeforeMaterialLookup ==
    /\ (/\ pc = "done"
        /\ call.fn \in MaterialFns
        /\ ~InMaterialDict(call.args.material)
        /\ ValidBut({"material"}))
       => (outcome.kind = "raise" /\ outcome.exc = FunctionInputFail)
    /\ \A k \in {"v_m", "rho_m", "mu_m"} :
        (/\ pc = "done"
         /\ call.fn \in MaterialFns
         /\ k \in DOMAIN call.args
         /\ IsNegNum(call.args[k])
         /\ ValidBut({k, "material", "location"}))
        => outcome.kind = "nan"

\* welded_joint has returned NaN for a negative velocity although its
\* material is not in the table
C21_Witness ==
    /\ Done("welded_joint")
    /\ IsNegNum(call.args.v_m)
    /\ call.args.material = Str("Duplex")
    /\ outcome.kind = "nan"

\* bend has raised FunctionInputFail for an unknown material, its numeric
\* inputs being valid
C21_WitnessUnknownMaterial ==
    /\ Done("bend")
    /\ call.args.material = Str("Duplex")
    /\ ValidBut({"material"})
    /\ outcome.kind = "raise" /\ outcome.exc = FunctionInputFail

\* the validator's result on the bundle bend (line 135) or tee (line 185)
\* builds from the arguments a
PassedOn(fn, a) ==
    validate_inputs(Sel(a, IF fn = "bend" THEN {"v_m", "rho_m", "mu_m", "R", "GF", "D", "d_p"}
                           ELSE {"v_m", "rho_m", "mu_m", "GF", "D", "d_p"})).res = "none"

\* C22: when the validator has let a call of bend or tee proceed, the
\* divisions that compute beta, the Reynolds number and gamma_c do not divide
\* by zero, for rho_m = 0 and mu_m = 0 as well (the bend radius, which
\* another division reads, being different from zero).
C22_NoDivisionByZeroAfterPass ==
    (/\ pc = "done"
     /\ call.fn \in {"bend", "tee"}
     /\ PassedOn(call.fn, call.args)
     /\ "R" \in DOMAIN call.args => ~IsZero(call.args.R))
    => ~(outcome.kind = "raise" /\ outcome.exc = ZeroDivisionError)

\* tee has raised ZeroDivisionError for a viscosity of zero that the
\* validator let through
C22_ZeroViscosityDivides ==
    /\ Done("tee")
    /\ PassedOn("tee", call.args)
    /\ IsZero(call.args.mu_m)
    /\ outcome.kind = "raise" /\ outcome.exc = ZeroDivisionError

\* the factor a scaling recorded in ops multiplies by, and that of a sequence
OpFactor(op) ==
    CASE op = "*3" -> Int_(3)
      [] op = "/2.5" -> RInv(Rat(5, 2))
      [] op = "*1.25" -> Rat(5, 4)

RECURSIVE Factor(_)
Factor(ops) == IF ops = <<>> THEN Int_(1) ELSE RMul(OpFactor(Head(ops)), Factor(Tail(ops)))

\* the outcome r is the outcome b of bend scaled by the number c: the same
\* exception or NaN, or the same formula on the same arguments times c
BendTimes(r, b, c) ==
    /\ r.kind = b.kind /\ r.exc = b.exc /\ r.term = b.term /\ r.args = b.args
    /\ b.kind \in {"num", "complex"} => Factor(r.ops) = RMul(Factor(b.ops), c)

\* bend's arguments with the radius, geometry factor, diameter and velocity
\* given, the rest taken from a; rho_p and crushed as given
BendArgs(a, v_m, R, GF, D, rho_p, crushed) ==
    [v_m |-> v_m, rho_m |-> a.rho_m, mu_m |-> a.mu_m, R |-> R, GF |-> GF, D |-> D,
     d_p |-> a.d_p, material |-> a.material, rho_p |-> rho_p, crushed |-> crushed]

\* v_c = (3/4) * v_m * (pi/4) * D^2 / (2 * H * gap)
ClaimedGalleryVelocity(a) ==
    RDiv(RMul(RMul(Rat(3, 4), a.v_m), RMul(RDiv(Pi, Int_(4)), RMul(a.D, a.D))),
         RMul(Int_(2), RMul(a.H, a.gap)))

\* C23: on inputs their own validation lets through, manifold equals bend
\* with R = Dm/D - 0.5 and the same remaining arguments; flexible equals
\* bend with R = mbr, GF = 2 and the default rho_p; choke_gallery equals
\* bend(v_c, rho_m, mu_m, R_c/gap, GF, gap, d_p, material) times 1.25/2.5,
\* with v_c = (3/4) * v_m * (pi/4) * D^2 / (2 * H * gap) (for flexible and
\* choke_gallery: with crushed left at False).
C23_DelegatesEqualBend ==
    /\ (Done("manifold") /\ validate_inputs(Sel(call.args, {"D", "Dm"})).res = "none")
       => BendTimes(outcome,
                    bend(BendArgs(call.args, call.args.v_m,
                                  RSub(RDiv(call.args.Dm, call.args.D), Rat(1, 2)),
                                  call.args.GF, call.args.D, call.args.rho_p,
                                  call.args.crushed)),
                    Int_(1))
    /\ (Done("flexible") /\ call.args.crushed = PyFalse)
       => BendTimes(outcome,
                    bend(BendArgs(call.args, call.args.v_m, call.args.mbr, Int_(2),
                                  call.args.D, Int_(2650), PyFalse)),
                    Int_(1))
    /\ (/\ Done("choke_gallery")
        /\ call.args.crushed = PyFalse
        /\ validate_inputs(Sel(call.args, {"R_c", "gap", "H"})).res = "none"
        /\ IsNumber(call.args.v_m) /\ IsNumber(call.args.D))
       => BendTimes(outcome,
                    bend(BendArgs(call.args, ClaimedGalleryVelocity(call.args),
                                  RDiv(call.args.R_c, call.args.gap), call.args.GF,
                                  call.args.gap, Int_(2650), PyFalse)),
                    RDiv(Rat(5, 4), Rat(5, 2)))

\* manifold has returned bend's value at the synthetic radius 0.2/0.1 - 0.5
C23_Witness ==
    /\ Done("manifold")
    /\ outcome.kind = "num" /\ outcome.term = "bend"
    /\ call.args.Dm = Rat(1, 5) /\ call.args.D = Rat(1, 10)
    /\ outcome.args.R = Rat(3, 2)

\* choke_gallery has returned half of bend's value at the gallery velocity,
\* with the gap for the diameter
C23_WitnessChoke ==
    /\ Done("choke_gallery")
    /\ outcome.kind = "num" /\ outcome.term = "bend"
    /\ outcome.args.D = call.args.gap
    /\ outcome.args.v_m = ClaimedGalleryVelocity(call.args)
    /\ Factor(outcome.ops) = Rat(1, 2)

(***************************************************************************)
(* Properties of the particle size correction of bend.                     *)
(***************************************************************************)
\* gamma_c is a number in (0, 0.1]
InClampRange(gamma_c) ==
    IsNumber(gamma_c) /\ RGt(gamma_c, Zero) /\ RLe(gamma_c, Rat(1, 10))

\* min(gamma / gamma_c, 1) for a positive gamma_c
MinRatio(gamma, gamma_c) ==
    IF RLt(RDiv(gamma, gamma_c), Int_(1)) THEN RDiv(gamma, gamma_c) ELSE Int_(1)

\* the clamp and the correction are as stated for the step's result r
ClampedAndCorrected(r) ==
    /\ InClampRange(r.gamma_c)
    /\ r.gamma_c = (IF InClampRange(r.computed) THEN r.computed ELSE Rat(1, 10))
    /\ r.G = MinRatio(r.gamma, r.gamma_c)
    /\ RGt(r.gamma, Zero) => (RGt(r.G, Zero) /\ RLe(r.G, Int_(1)))
    /\ r.G = Int_(1) <=> RGe(r.gamma, r.gamma_c)

\* C24: in bend, after the clamping step 0 < gamma_c <= 0.1 (a computed
\* value <= 0 or > 0.1 is replaced by 0.1, one in (0, 0.1] is kept), and
\* G = min(gamma / gamma_c, 1): 0 < G <= 1 for positive d_p and D, and G = 1
\* exactly when gamma >= gamma_c.
C24_CriticalSizeClamped ==
    Done("particle_size_correction") => ClampedAndCorrected(outcome.value)

\* the same where the computed gamma_c is not NaN
C24_ClampedUnlessNaN ==
    (Done("particle_size_correction") /\ outcome.value.computed.t # "nan")
    => ClampedAndCorrected(outcome.value)

\* a computed gamma_c of 3/265 has been kept and has given G = 0.004 / (3/265)
C24_WitnessKept ==
    /\ Done("particle_size_correction")
    /\ outcome.value.computed = Rat(3, 265)
    /\ outcome.value.gamma_c = Rat(3, 265)
    /\ outcome.value.G = Rat(53, 150)

\* a NaN gamma_c has passed the clamp and has given G = 1, the viscosity and
\* the velocity being zero
C24_NaNPassesClamp ==
    /\ Done("particle_size_correction")
    /\ IsZero(call.args.v_m) /\ IsZero(call.args.mu_m)
    /\ outcome.value.gamma_c = NaN
    /\ outcome.value.G = Int_(1)

(***************************************************************************)
(* Properties of the unit conversion.                                      *)
(***************************************************************************)
\* 1000 * 3600 * 24 * 365.25 = 31557600000, in units of 10**9
SecondsPerYearTimes1000 == Rat(315576, 10000)

\* C25: the downstream formula of welded_joint is evaluated with the unit
\* conversion constant of straight_pipe and erosion_rate,
\* C_unit = 1000 * 3600 * 24 * 365.25 = 31557600000.
C25_WeldUsesCommonUnitConstant ==
    /\ C_unit = SecondsPerYearTimes1000
    /\ (Done("straight_pipe") /\ outcome.kind = "num")
       => outcome.args.C_unit = SecondsPerYearTimes1000
    /\ (Done("welded_joint") /\ outcome.kind = "num" /\ outcome.term = "welded_joint_downstream")
       => outcome.args.C_unit = SecondsPerYearTimes1000

\* straight_pipe and erosion_rate do use 31557600000
C25_PipeAndRateUseCommonConstant ==
    /\ C_unit = SecondsPerYearTimes1000
    /\ (Done("straight_pipe") /\ outcome.kind = "num")
       => outcome.args.C_unit = SecondsPerYearTimes1000

\* welded_joint has returned a downstream value computed with 3.15e10
C25_WeldUses315e8 ==
    /\ Done("welded_joint")
    /\ outcome.kind = "num" /\ outcome.term = "welded_joint_downstream"
    /\ outcome.args.C_unit = Rat(63, 2)

(***************************************************************************)
(* Properties of the impact angle advisory.                                *)
(***************************************************************************)
\* the range of alpha outside which each geometry logs its advisory
AlphaRange ==
    [welded_joint |-> <<0, 90>>, reducer |-> <<10, 80>>, probes |-> <<10, 90>>]

\* the call has logged the advisory on alpha of the geometry fn
AlphaAdvised(fn) == \E i \in 1..Len(outcome.log) : outcome.log[i] = <<"range", "alpha", fn>>

\* the outcome is the value of fn's formula at the alpha of the call: the
\* term on that alpha, or NaN where F is NaN at that alpha
FormulaValueAtAlpha(fn) ==
    \/ /\ outcome.kind = "num"
       /\ outcome.term \in (IF fn = "welded_joint"
                            THEN {"welded_joint_downstream", "welded_joint_upstream"} ELSE {fn})
       /\ "alpha" \in DOMAIN outcome.args => outcome.args.alpha = call.args.alpha
    \/ /\ outcome.kind = "nan"
       /\ F_is_nan(call.args.alpha, call.args.material)
       /\ fn = "welded_joint" => call.args.location = Str("upstream")

\* C26: with the other inputs valid, welded_joint logs the impact angle
\* advisory exactly when alpha < 0 or alpha > 90, reducer exactly when
\* alpha < 10 or alpha > 80, probes exactly when alpha < 10 or alpha > 90; the
\* function returns the value of its formula at that alpha and raises
\* nothing.  When the validator has soft-failed on a negative monitored input
\* the advisory is not logged.
C26_AlphaAdvisoryPerGeometry ==
    \A fn \in DOMAIN AlphaRange :
        /\ (Done(fn) /\ IsNumber(call.args.alpha) /\ OthersValid("alpha"))
           => /\ AlphaAdvised(fn) <=> (\/ RLt(call.args.alpha, Int_(AlphaRange[fn][1]))
                                       \/ RGt(call.args.alpha, Int_(AlphaRange[fn][2])))
              /\ FormulaValueAtAlpha(fn)
        /\ \A k \in {"v_m", "rho_m"} :
            (/\ Done(fn)
             /\ IsNumber(call.args.alpha)
             /\ IsNegNum(call.args[k])
             /\ ValidBut({k, "alpha"}))
            => (outcome.kind = "nan" /\ ~AlphaAdvised(fn))

\* reducer has logged the advisory for 85 degrees and returned its formula value
C26_Witness ==
    /\ Done("reducer")
    /\ call.args.alpha = Int_(85)
    /\ AlphaAdvised("reducer")
    /\ outcome.kind = "num" /\ outcome.args.alpha = Int_(85)

\* probes has logged nothing at the bound of 90 degrees
C26_WitnessBound ==
    /\ Done("probes")
    /\ call.args.alpha = Int_(90)
    /\ outcome.kind = "num" /\ outcome.log = <<>>

\* welded_joint has soft-failed with alpha = 100 and logged no advisory
C26_WitnessSoftFail ==
    /\ Done("welded_joint")
    /\ call.args.alpha = Int_(100)
    /\ IsNegNum(call.args.v_m)
    /\ outcome.kind = "nan" /\ ~AlphaAdvised("welded_joint")

(***************************************************************************)
(* Properties of the friction factor helper of hydro.                      *)
(***************************************************************************)
\* the call has logged the diagnostic m
Logged(m) == \E i \in 1..Len(outcome.log) : outcome.log[i] = m

\* the regime is chosen by Re alone and the value is that of the regime:
\* 64 / Re without a root-find below 2000, the root of the Colebrook equation
\* (or the root-find's exception) from 2000 on
RegimeByReynolds ==
    Done("moody") =>
        IF RLt(call.args.Re, Int_(2000))
        THEN /\ call.args.newton = NewtonNotRun
             /\ ~IsZero(call.args.Re) =>
                    (outcome.kind = "value" /\ outcome.value = RDiv(Int_(64), call.args.Re))
        ELSE /\ call.args.newton.res = "root" =>
                    (outcome.kind = "value" /\ outcome.value = call.args.newton.x)
             /\ call.args.newton.res = "raise" =>
                    (outcome.kind = "raise" /\ outcome.exc = call.args.newton.exc)

\* the diagnostics on a negative Re and on the transition range
ReynoldsDiagnostics ==
    Done("moody") =>
        /\ Logged(<<"negative", "Re">>) <=> RLt(call.args.Re, Zero)
        /\ Logged(<<"info", "transition">>) <=>
              (RGe(call.args.Re, Int_(2000)) /\ RLt(call.args.Re, Int_(4000)))

\* C27: the friction factor helper of hydro chooses the regime by Re alone
\* (64/Re without root-finding for Re < 2000, negative Re included; the
\* Colebrook root by Newton iteration for Re >= 2000); it logs a non-fatal
\* diagnostic whenever Re is negative, whenever e/D exceeds 0.05, in every
\* flow regime, and whenever 2000 <= Re < 4000; no diagnostic changes the
\* value returned.
C27_MoodyRegimesAndDiagnostics ==
    /\ RegimeByReynolds
    /\ ReynoldsDiagnostics
    /\ Done("moody") => (Logged(<<"range", "ed">>) <=> RGt(call.args.ed, Rat(5, 100)))

\* the same, the roughness diagnostic being logged from Re = 2000 on only
C27_RoughnessDiagnosticFrom2000 ==
    /\ RegimeByReynolds
    /\ ReynoldsDiagnostics
    /\ Done("moody") =>
          (Logged(<<"range", "ed">>) <=>
              (RGt(call.args.ed, Rat(5, 100)) /\ RGe(call.args.Re, Int_(2000))))

\* moody has returned 64/Re for a laminar flow and a relative roughness of
\* 0.06 without a diagnostic
C27_LaminarRoughnessSilent ==
    /\ Done("moody")
    /\ call.args.ed = Rat(6, 100) /\ call.args.Re = Int_(100)
    /\ outcome.value = Rat(64, 100) /\ outcome.log = <<>>

(***************************************************************************)
(* Properties of the order of the erosion validator's checks.              *)
(***************************************************************************)
\* the monitored parameter at position i is the first one of the bundle a
\* that is not a number or is negative
FirstMonitoredOffender(a, i) ==
    /\ MonitoredKeys[i] \in DOMAIN a
    /\ NotANumber(a[MonitoredKeys[i]]) \/ IsNegNum(a[MonitoredKeys[i]])
    /\ \A j \in 1..(i - 1) :
          MonitoredKeys[j] \in DOMAIN a =>
              ~(NotANumber(a[MonitoredKeys[j]]) \/ IsNegNum(a[MonitoredKeys[j]]))

\* C28: validate_inputs examines v_m, rho_m, mu_m, Q_s first and in this
\* order, type before sign per parameter, and the first of them that offends
\* decides: a negative one gives True (SoftFail) whatever the parameters
\* checked later are, one that is not a number raises FunctionInputFail
\* even when a later one is negative.  The validator returns True or None
\* only, never False.
C28_MonitoredInputsDecideFirst ==
    Done("validate_inputs") =>
        /\ outcome.kind \in {"true", "none", "raise"}
        /\ \A i \in 1..Len(MonitoredKeys) :
              FirstMonitoredOffender(call.args, i) =>
                  IF IsNegNum(call.args[MonitoredKeys[i]])
                  THEN /\ outcome.kind = "true"
                       /\ outcome.log = <<<<"negative", MonitoredKeys[i]>>>>
                  ELSE outcome.kind = "raise" /\ outcome.exc = FunctionInputFail

\* the validator has returned True for a negative velocity although crushed
\* is not a boolean
C28_Witness ==
    /\ Done("validate_inputs")
    /\ DOMAIN call.args = {"v_m", "crushed"}
    /\ IsNegNum(call.args.v_m)
    /\ call.args.crushed = Str("yes")
    /\ outcome.kind = "true"

\* the validator has raised for a velocity that is not a number although the
\* density is negative
C28_WitnessTypeFirst ==
    /\ Done("validate_inputs")
    /\ {"v_m", "rho_m"} \subseteq DOMAIN call.args
    /\ call.args.v_m = None
    /\ IsNegNum(call.args.rho_m)
    /\ outcome.kind = "raise" /\ outcome.exc = FunctionInputFail

(***************************************************************************)
(* Properties of the sign of the returned values.                          *)
(***************************************************************************)
\* some validator has soft-failed during the call
SoftFailed == \E i \in 1..Len(outcome.log) : outcome.log[i][1] = "negative"

\* the terms whose sign the model computes
SignedTerms == {"welded_joint_downstream", "nozzlevalve_wall"}

\* C29: a value a geometry function returns after its validator has passed
\* is a number >= 0, never negative and never NaN, for every accepted input
\* combination (GF < 1 or negative, h < 0, D2 >= D1, At <= 0 included).
C29_ReturnedValuesNonNegative ==
    (/\ pc = "done"
     /\ call.fn \in GeometryFns
     /\ outcome.kind # "raise"
     /\ ~SoftFailed)
    => /\ outcome.kind = "num"
       /\ outcome.term \in SignedTerms => ValueSign(outcome.term, outcome.args) >= 0

\* probes has returned NaN for alpha = -1, the validator having passed
C29_NaNAfterPass ==
    /\ Done("probes")
    /\ call.args.alpha = Int_(-1)
    /\ OthersValid("alpha")
    /\ outcome.kind = "nan" /\ ~SoftFailed

\* nozzlevalve_wall has returned a negative value for a negative target area
C29_NegativeAfterPass ==
    /\ Done("nozzlevalve_wall")
    /\ call.args.At = Int_(-1)
    /\ OthersValid("At")
    /\ outcome.kind = "num" /\ ValueSign(outcome.term, outcome.args) = -1

\* welded_joint has returned a negative downstream value for a negative weld
\* height
C29_NegativeWeld ==
    /\ Done("welded_joint")
    /\ call.args.h = Int_(-1)
    /\ OthersValid("h")
    /\ outcome.kind = "num" /\ outcome.term = "welded_joint_downstream"
    /\ ValueSign(outcome.term, outcome.args) = -1

\* reducer has returned NaN for D2 = D1
C29_NaNReducer ==
    /\ Done("reducer")
    /\ call.args.D1 = call.args.D2
    /\ outcome.kind = "nan" /\ ~SoftFailed

(***************************************************************************)
(* Properties of the particle concentration advisory.                      *)
(***************************************************************************)
\* the outcome of the call had its particle density been the default 2650
WithDefaultDensity == Eval(call.fn, [call.args EXCEPT !.rho_p = Int_(2650)])

\* the validator has ended the call that gave the outcome r
EndedByValidator(r) ==
    \/ r.kind = "raise" /\ r.exc = FunctionInputFail
    \/ r.kind = "nan" /\ \E i \in 1..Len(r.log) : r.log[i][1] = "negative"

\* C30: no geometry function and not erosion_rate logs the particle
\* concentration (ppmV) advisory; only validate_inputs called directly with
\* Q_s, v_m and D does.  The rho_p given to bend, tee or manifold does not
\* reach the validator: the diagnostics, and whether the validator ends the
\* call, are those of the default density 2650.
C30_ConcentrationAdvisoryUnreachable ==
    /\ (pc = "done" /\ Logged(<<"range", "ppmV">>))
       => (call.fn = "validate_inputs" /\ {"Q_s", "v_m", "D"} \subseteq DOMAIN call.args)
    /\ (pc = "done" /\ call.fn \in {"bend", "tee", "manifold"})
       => /\ outcome.log = WithDefaultDensity.log
          /\ EndedByValidator(WithDefaultDensity) => outcome = WithDefaultDensity

\* validate_inputs, called with Q_s = 555, v_m and D, has logged the advisory
C30_Witness ==
    /\ Done("validate_inputs")
    /\ DOMAIN call.args = {"Q_s", "v_m", "D"}
    /\ call.args.Q_s = Int_(555)
    /\ outcome.kind = "none"
    /\ Logged(<<"range", "ppmV">>)

\* erosion_rate has returned a value for Q_s = 555 without a diagnostic
C30_WitnessErosionRate ==
    /\ Done("erosion_rate")
    /\ call.args.Q_s = Int_(555)
    /\ outcome.kind = "num" /\ outcome.log = <<>>

\* bend has gone past the validator with a particle density of None
C30_WitnessDensity ==
    /\ Done("bend")
    /\ call.args.rho_p = None
    /\ OthersValid("rho_p")
    /\ outcome.kind = "raise" /\ outcome.exc = TypeError

====
